---- MODULE Spec2Model ----
(***************************************************************************)
(* A model of the container launch driver (container.rs), the bridged      *)
(* network lifecycle and the IPv4 subnet algebra (network.rs), and the     *)
(* launch specification (spec.rs).                                         *)
(*                                                                         *)
(* Text is a sequence of one-character strings, so that formatting         *)
(* (Display) and substring search (str::contains) are computed and not     *)
(* assumed.  An Option is a sequence of length at most one.                *)
(***************************************************************************)
EXTENDS Integers, Sequences, FiniteSets, TLC

VARIABLES
    bridge,         \* the BridgeSpec of the host bridge
    hostAddrs,      \* addresses `ip addr show` lists on the host
    netns,          \* named network namespaces, by name
    veth,           \* the veth pair <name>-host / <name>-ns, by namespace name
    containerDir,   \* whether ./containers/<id> exists, by launch
    spec,           \* the RunContainerSpec of each launch
    passwd,         \* the image's etc/passwd: its lines, or None without one
    faulty,         \* the child operations the environment can make fail
    handle,         \* run's local `network_namespace`: the NetworkNamespace held
    pc,             \* where each launch's parent process is
    result,         \* what `from_bridge` / `run` returns in each launch
    plog,           \* the commands and syscalls each parent has issued
    cpc,            \* where each launch's cloned child is
    clog,           \* the operations each child has started
    cuser,          \* the user `execute` resolved in the child
    cerr,           \* the error `execute` returned in the child
    cret,           \* what the clone trampoline returned
    cstatus,        \* the wait status of a terminated child
    hostNet,        \* the host's bridge interface, ip_forward and iptables
    overflow_checks,\* whether the build checks integer overflow (debug)
    resolv_conf,    \* the content of the host's /etc/resolv.conf
    calc            \* the inputs and results of the functions applied alone

vars == <<bridge, hostAddrs, netns, veth, containerDir, spec, passwd, faulty,
          handle, pc, result, plog, cpc, clog, cuser, cerr, cret, cstatus,
          hostNet, overflow_checks, resolv_conf, calc>>

\* what no step of a launch changes
fixedVars == <<hostNet, overflow_checks, resolv_conf, calc>>

hostVars == <<bridge, hostAddrs, netns, veth, containerDir, passwd, faulty,
              fixedVars>>
childVars == <<cpc, clog, cuser, cerr, cret, cstatus>>

----------------------------------------------------------------------------
(* Options and results *)

None == <<>>
Some(x) == <<x>>
is_some(o) == Len(o) = 1
unwrap(o) == o[1]

Ok(v) == [ok |-> TRUE, v |-> v, e |-> "none"]
Err(e) == [ok |-> FALSE, v |-> None, e |-> e]

----------------------------------------------------------------------------
(* Text *)

Digits == <<"0", "1", "2", "3", "4", "5", "6", "7", "8", "9">>

\* u32 / u16 / u8 `to_string`: decimal, no leading zeros
RECURSIVE to_string(_)
to_string(n) ==
    IF n < 10 THEN <<Digits[n + 1]>>
    ELSE to_string(n \div 10) \o <<Digits[(n % 10) + 1]>>

\* str::contains
contains(haystack, needle) ==
    \E i \in 0..(Len(haystack) - Len(needle)) :
        SubSeq(haystack, i + 1, i + Len(needle)) = needle

\* str::starts_with
starts_with(text, prefix) ==
    /\ Len(text) >= Len(prefix)
    /\ SubSeq(text, 1, Len(prefix)) = prefix

----------------------------------------------------------------------------
(* u32 arithmetic on two 16-bit halves <<high, low>> *)

RECURSIVE and16(_, _)
and16(a, b) ==
    IF a = 0 \/ b = 0 THEN 0
    ELSE (a % 2) * (b % 2) + 2 * and16(a \div 2, b \div 2)

\* x & y, x | y, !x
u32_and(x, y) == <<and16(x[1], y[1]), and16(x[2], y[2])>>
u32_or(x, y) ==
    <<x[1] + y[1] - and16(x[1], y[1]), x[2] + y[2] - and16(x[2], y[2])>>
u32_not(x) == <<65535 - x[1], 65535 - x[2]>>

\* 1 << k for a shift k in 0..31
u32_shl1(k) == IF k < 16 THEN <<0, 2 ^ k>> ELSE <<2 ^ (k - 16), 0>>

\* x - 1 for x > 0, and x + 1 (wrapping; no caller reaches the wrap)
u32_sub1(x) == IF x[2] > 0 THEN <<x[1], x[2] - 1>> ELSE <<x[1] - 1, 65535>>
u32_add1(x) ==
    IF x[2] < 65535 THEN <<x[1], x[2] + 1>> ELSE <<(x[1] + 1) % 65536, 0>>

\* u32::from_be_bytes, u32::to_be_bytes / Ipv4Addr::from(u32)
u32_from_be_bytes(o) == <<o[1] * 256 + o[2], o[3] * 256 + o[4]>>
u32_to_be_bytes(x) == <<x[1] \div 256, x[1] % 256, x[2] \div 256, x[2] % 256>>

----------------------------------------------------------------------------
(* Ipv4Net: an Ipv4Addr (four octets) and a prefix length (u16) *)

Ipv4Addr(a, b, c, d) == <<a, b, c, d>>

octets(address) == address

Ipv4Net_new(address, subnet_cidr) ==
    [address |-> address, subnet_cidr |-> subnet_cidr]

\* the shift `(32 - self.subnet_cidr) as u32` as the build without overflow
\* checks performs it: the u16 subtraction wraps, `<<` takes the amount
\* modulo 32
shift_amount(net) == ((32 - net.subnet_cidr) % 65536) % 32

\* with overflow checks `32 - cidr` panics above 32 and `1 << 32` panics at 0;
\* every method that calls subnet_mask, and is_broadcast, panics with it
subnet_mask_panics(net) ==
    overflow_checks /\ (net.subnet_cidr > 32 \/ net.subnet_cidr = 0)

\* !((1 << (32 - self.subnet_cidr) as u32) - 1)
subnet_mask(net) == u32_not(u32_sub1(u32_shl1(shift_amount(net))))

\* the iteration bound of the scan
subnet_size(net) == 32 - net.subnet_cidr

\* (addr_uint & subnet_mask, addr_uint & !subnet_mask)
split(net) ==
    LET addr_uint == u32_from_be_bytes(octets(net.address))
    IN  <<u32_and(addr_uint, subnet_mask(net)),
          u32_and(addr_uint, u32_not(subnet_mask(net)))>>

\* network_part | ((host_part + 1) & !self.subnet_mask())
next(net) ==
    LET parts == split(net)
        next_address == u32_or(parts[1], u32_and(u32_add1(parts[2]),
                                                 u32_not(subnet_mask(net))))
    IN  Ipv4Net_new(u32_to_be_bytes(next_address), net.subnet_cidr)

is_network(net) == split(net)[2] = <<0, 0>>

\* host_part == (1 << (32 - self.subnet_cidr)) - 1
is_broadcast(net) == split(net)[2] = u32_sub1(u32_shl1(shift_amount(net)))

Ipv4Addr_to_string(address) ==
    LET o == octets(address)
    IN  to_string(o[1]) \o <<".">> \o to_string(o[2]) \o <<".">>
        \o to_string(o[3]) \o <<".">> \o to_string(o[4])

\* Display for Ipv4Net: "A.B.C.D/N"
Ipv4Net_to_string(net) ==
    Ipv4Addr_to_string(net.address) \o <<"/">> \o to_string(net.subnet_cidr)

----------------------------------------------------------------------------
(* Parsing: str::split, the integer parsers, Ipv4Addr and Ipv4Net from_str *)

\* text.split(separator): the parts between the separators, at least one.
\* The j-th part lies between the (j-1)-th and the j-th separator, the
\* start and the end of the text standing for the 0-th and the last
str_split(text, separator) ==
    LET at == {i \in DOMAIN text : text[i] = separator}
        nth(j) == IF j = 0 THEN 0
                  ELSE IF j > Cardinality(at) THEN Len(text) + 1
                  ELSE CHOOSE i \in at : Cardinality({k \in at : k < i}) = j - 1
    IN  [j \in 1..(Cardinality(at) + 1) |->
            SubSeq(text, nth(j - 1) + 1, nth(j) - 1)]

is_digit(c) == \E d \in DOMAIN Digits : Digits[d] = c
digit_value(c) == (CHOOSE d \in DOMAIN Digits : Digits[d] = c) - 1

\* the value of a run of digits, stopping at limit + 1 once it is exceeded
RECURSIVE digits_value(_, _, _)
digits_value(text, acc, limit) ==
    IF text = <<>> THEN acc
    ELSE LET more == acc * 10 + digit_value(Head(text))
         IN  IF more > limit THEN limit + 1
             ELSE digits_value(Tail(text), more, limit)

all_digits(text) == text # <<>> /\ \A i \in DOMAIN text : is_digit(text[i])

\* u16::from_str: an optional "+", then digits; no sign alone, no overflow
u16_from_str(text) ==
    LET digits == IF text # <<>> /\ Head(text) = "+" THEN Tail(text) ELSE text
    IN  IF ~all_digits(digits) THEN Err("invalid digit found in string")
        ELSE IF digits_value(digits, 0, 65535) > 65535
             THEN Err("number too large to fit in target type")
             ELSE Ok(digits_value(digits, 0, 65535))

\* i32::from_str, for the magnitudes the model uses (below 10^6)
i32_from_str(text) ==
    LET signed == text # <<>> /\ Head(text) \in {"+", "-"}
        digits == IF signed THEN Tail(text) ELSE text
    IN  IF ~all_digits(digits) THEN Err("invalid digit found in string")
        ELSE IF digits_value(digits, 0, 999999) > 999999
             THEN Err("number too large to fit in target type")
             ELSE Ok(IF signed /\ Head(text) = "-"
                     THEN 0 - digits_value(digits, 0, 999999)
                     ELSE digits_value(digits, 0, 999999))

\* faulty variant: an octet has at most two digits
octet_from_str_two_digits(text) ==
    IF /\ all_digits(text)
       /\ Len(text) <= 2
       /\ (Len(text) > 1 => Head(text) # "0")
    THEN Some(digits_value(text, 0, 255)) ELSE None

\* one octet of Ipv4Addr::from_str: one to three digits, no leading zero,
\* at most 255
octet_from_str(text) ==
    IF /\ all_digits(text)
       /\ Len(text) <= 3
       /\ (Len(text) > 1 => Head(text) # "0")
       /\ digits_value(text, 0, 255) <= 255
    THEN Some(digits_value(text, 0, 255)) ELSE None

\* Ipv4Addr::from_str: exactly four octets separated by dots
Ipv4Addr_from_str(text) ==
    LET parts == str_split(text, ".")
    IN  IF Len(parts) = 4 /\ \A i \in 1..4 : is_some(octet_from_str(parts[i]))
        THEN Ok(Ipv4Addr(unwrap(octet_from_str(parts[1])),
                         unwrap(octet_from_str(parts[2])),
                         unwrap(octet_from_str(parts[3])),
                         unwrap(octet_from_str(parts[4]))))
        ELSE Err("invalid IPv4 address syntax")

\* FromStr for Ipv4Net: the first two parts of text.split("/")
Ipv4Net_from_str(text) ==
    LET parts == str_split(text, "/")
    IN  IF Len(parts) < 2 THEN Err("Expected cidr notation.")
        ELSE LET address == Ipv4Addr_from_str(parts[1])
                 subnet_cidr == u16_from_str(parts[2])
             IN  IF ~address.ok THEN Err("Failed to parse IP address")
                 ELSE IF ~subnet_cidr.ok THEN Err("Failed to parse subnet mask")
                 ELSE Ok(Ipv4Net_new(address.v, subnet_cidr.v))

----------------------------------------------------------------------------
(* The launches, their ids and the names on the host *)

Launches == {"a", "b"}

\* container ids (UUID-shaped in the program; the first 4 characters name
\* the network namespace): IdB shares its first 4 characters with IdA
IdA == <<"a", "b", "c", "d", "1">>
IdB == <<"a", "b", "c", "d", "2">>
IdC == <<"e", "f", "0", "1", "3">>
Ids == {IdA, IdB, IdC}

Cort == <<"c", "o", "r", "t", "-">>

\* format!("cort-{}", &self.id[..4])
cort_name(id) == Cort \o SubSeq(id, 1, 4)

\* a cort- namespace left on the host by an earlier run, and a namespace
\* that does not belong to the tool
StaleNs == Cort \o <<"9", "9", "9", "9">>
ForeignNs == <<"v", "p", "n", "0">>

NsNames == {cort_name(id) : id \in Ids} \cup {StaleNs, ForeignNs}

NoNs == [exists |-> FALSE, creator |-> "none", lo_up |-> FALSE, route |-> FALSE]

NoVeth ==
    [host |-> FALSE, peer |-> "none", host_master |-> FALSE,
     peer_master |-> FALSE, host_up |-> FALSE, peer_up |-> FALSE,
     addr |-> None, creator |-> "none"]

Loopback == Ipv4Net_new(Ipv4Addr(127, 0, 0, 1), 8)

----------------------------------------------------------------------------
(* RunContainerSpec and its accessors (spec.rs) *)

HostNetwork ==
    [kind |-> "Host", bridge_interface |-> None, bridge_ip_address |-> None,
     container_ip_address |-> None, hostname |-> None]

\* faulty variant: a launch on the host network has a namespace name too
network_namespace_always(s) == Some(cort_name(s.id))

\* RunContainerSpec::network_namespace
network_namespace(s) ==
    IF s.network.kind = "Host" THEN None ELSE Some(cort_name(s.id))

\* faulty variant: without a hostname the id is used, not the name
hostname_or_id(s) ==
    IF s.network.kind = "Host" THEN None
    ELSE Some(IF is_some(s.network.hostname)
              THEN unwrap(s.network.hostname) ELSE s.id)

\* RunContainerSpec::hostname
hostname(s) ==
    IF s.network.kind = "Host" THEN None
    ELSE Some(IF is_some(s.network.hostname)
              THEN unwrap(s.network.hostname) ELSE s.name)

----------------------------------------------------------------------------
(* What the `ip` command shows *)

\* the addresses `ip addr show` lists: on the host for None, inside the
\* namespace (`ip netns exec <ns> ip addr show`) for Some(ns)
addresses_shown(namespace) ==
    IF ~is_some(namespace) THEN hostAddrs
    ELSE LET n == unwrap(namespace)
         IN  (IF netns[n].lo_up THEN {Loopback} ELSE {})
             \cup (IF veth[n].peer = "netns" /\ is_some(veth[n].addr)
                   THEN {unwrap(veth[n].addr)} ELSE {})

\* one address line of the output: "inet A.B.C.D/N ..."
inet_line(net) ==
    <<"i", "n", "e", "t", " ">> \o Ipv4Net_to_string(net) \o <<" ">>

\* ip_command(...).contains(&ip_address.to_string()): the needle holds no
\* line break, so it is in the output iff it is in one of its lines
is_ip_address_used(ip_address, namespace) ==
    \E shown \in addresses_shown(namespace) :
        contains(inet_line(shown), Ipv4Net_to_string(ip_address))

\* `ip netns list`, the first word of each line, filtered on "cort-"
find_container_network_namespaces ==
    {n \in NsNames : netns[n].exists /\ starts_with(n, Cort)}

check_is_ip_address_used(ip_address, network_namespaces) ==
    \/ is_ip_address_used(ip_address, None)
    \/ \E n \in network_namespaces : is_ip_address_used(ip_address, Some(n))

\* faulty variant: the broadcast address is not skipped
RECURSIVE scan_addresses_with_broadcast(_, _, _)
scan_addresses_with_broadcast(next_ip_address, left, network_namespaces) ==
    IF left = 0 THEN Err("NetworkIsFull")
    ELSE IF /\ ~is_network(next_ip_address)
            /\ ~check_is_ip_address_used(next_ip_address, network_namespaces)
         THEN Ok(next_ip_address)
         ELSE scan_addresses_with_broadcast(next(next_ip_address), left - 1,
                                            network_namespaces)

\* the loop of find_free_ip_address: `left` iterations remain
RECURSIVE scan_addresses(_, _, _)
scan_addresses(next_ip_address, left, network_namespaces) ==
    IF left = 0 THEN Err("NetworkIsFull")
    ELSE IF /\ ~is_broadcast(next_ip_address)
            /\ ~is_network(next_ip_address)
            /\ ~check_is_ip_address_used(next_ip_address, network_namespaces)
         THEN Ok(next_ip_address)
         ELSE scan_addresses(next(next_ip_address), left - 1, network_namespaces)

find_free_ip_address(base_ip_address) ==
    scan_addresses(base_ip_address, subnet_size(base_ip_address),
                   find_container_network_namespaces)

----------------------------------------------------------------------------
(* NetworkNamespace::create: the commands of create_network_namespace *)

\* faulty variant: the host end is brought up before it gets its master
CreateCommands_up_first ==
    <<"netns add", "link add veth", "link set host up",
      "link set ns master", "link set host master", "link set ns netns",
      "addr add", "link set ns up", "link set lo up", "route add default">>

CreateCommands ==
    <<"netns add", "link add veth", "link set host master",
      "link set ns master", "link set host up", "link set ns netns",
      "addr add", "link set ns up", "link set lo up", "route add default">>

\* faulty variant: `ip netns add` goes through when the name is taken
command_succeeds_name_taken(i, st) ==
    CASE i = 1 -> TRUE
      [] i = 2 -> ~st.ve.host /\ st.ve.peer # "host"
      [] i = 3 -> st.ve.host
      [] i = 4 -> st.ve.peer = "host"
      [] i = 5 -> st.ve.host
      [] i = 6 -> st.ve.peer = "host" /\ st.ns.exists
      [] i = 7 -> st.ve.peer = "netns" /\ st.ns.exists
      [] i = 8 -> st.ve.peer = "netns" /\ st.ns.exists
      [] i = 9 -> st.ns.exists
      [] OTHER -> st.ns.exists /\ st.ve.peer_up

\* whether the i-th command can succeed on the namespace / veth state st
command_succeeds(i, st) ==
    CASE i = 1 -> ~st.ns.exists
      [] i = 2 -> ~st.ve.host /\ st.ve.peer # "host"
      [] i = 3 -> st.ve.host
      [] i = 4 -> st.ve.peer = "host"
      [] i = 5 -> st.ve.host
      [] i = 6 -> st.ve.peer = "host" /\ st.ns.exists
      [] i = 7 -> st.ve.peer = "netns" /\ st.ns.exists
      [] i = 8 -> st.ve.peer = "netns" /\ st.ns.exists
      [] i = 9 -> st.ns.exists
      [] OTHER -> st.ns.exists /\ st.ve.peer_up

\* what the i-th command does when it succeeds, for launch l and address ip
command_effect(i, st, l, ip) ==
    CASE i = 1 -> [st EXCEPT !.ns = [NoNs EXCEPT !.exists = TRUE, !.creator = l]]
      [] i = 2 -> [st EXCEPT !.ve = [NoVeth EXCEPT !.host = TRUE, !.peer = "host",
                                                  !.creator = l]]
      [] i = 3 -> [st EXCEPT !.ve.host_master = TRUE]
      [] i = 4 -> [st EXCEPT !.ve.peer_master = TRUE]
      [] i = 5 -> [st EXCEPT !.ve.host_up = TRUE]
      [] i = 6 -> [st EXCEPT !.ve.peer = "netns", !.ve.peer_master = FALSE]
      [] i = 7 -> [st EXCEPT !.ve.addr = Some(ip)]
      [] i = 8 -> [st EXCEPT !.ve.peer_up = TRUE]
      [] i = 9 -> [st EXCEPT !.ns.lo_up = TRUE]
      [] OTHER -> [st EXCEPT !.ns.route = TRUE]

\* the closure `inner` of create_network_namespace: the commands in order,
\* each `?`; fail_at is the command the environment makes fail (if any).
\* Yields the state reached and the index of the failed command (0: none).
RECURSIVE create_commands(_, _, _, _, _)
create_commands(i, fail_at, st, l, ip) ==
    IF i > Len(CreateCommands) THEN [st |-> st, failed |-> 0]
    ELSE IF i = fail_at \/ ~command_succeeds(i, st) THEN [st |-> st, failed |-> i]
    ELSE create_commands(i + 1, fail_at, command_effect(i, st, l, ip), l, ip)

\* the log of the commands issued: all succeeded but the failed one
issued(commands, failed) ==
    [i \in 1..(IF failed = 0 THEN Len(commands) ELSE failed) |->
        [op |-> commands[i], ok |-> i # failed, flags |-> {}]]

logged(op, ok) == <<[op |-> op, ok |-> ok, flags |-> {}]>>

----------------------------------------------------------------------------
(* create_bridge (the caller runs it before a bridged launch) *)

\* a host without the bridge: no interface, no forwarding, an open firewall
NoBridge ==
    [link |-> "absent", ip_forward |-> "0", forward_policy |-> "ACCEPT",
     forward |-> <<>>, nat |-> <<>>]

\* the commands of the closure `inner` of create_bridge, in order
BridgeCommands(b) ==
    <<"link add bridge", "link set bridge up", "addr add bridge",
      "write ip_forward", "iptables -P FORWARD DROP", "iptables -F FORWARD",
      "iptables -A FORWARD bridge bridge">>
    \o (IF is_some(b.physical_interface)
        THEN <<"iptables -t nat -F", "iptables -t nat -A POSTROUTING",
               "iptables -A FORWARD physical bridge",
               "iptables -A FORWARD bridge physical">>
        ELSE <<>>)

\* faulty variant: the probe for the interface always reports it missing
link_show_always_fails(net) == FALSE

\* `ip link show <interface>` succeeds exactly when the interface exists
link_show_succeeds(net) == net.link # "absent"

\* whether the command succeeds on the host state st: the environment makes
\* the commands in `faulty` fail every time they are run
bridge_command_succeeds(command, st) ==
    /\ command \notin faulty
    /\ CASE command = "link add bridge" -> st.net.link = "absent"
         [] command \in {"link set bridge up", "addr add bridge"} ->
               st.net.link # "absent"
         [] OTHER -> TRUE

\* what the command does to the host when it succeeds
bridge_command_effect(command, st, b) ==
    CASE command = "link add bridge" -> [st EXCEPT !.net.link = "down"]
      [] command = "link set bridge up" -> [st EXCEPT !.net.link = "up"]
      [] command = "addr add bridge" ->
            [st EXCEPT !.addrs = @ \cup {b.ip_address}]
      [] command = "write ip_forward" -> [st EXCEPT !.net.ip_forward = "1"]
      [] command = "iptables -P FORWARD DROP" ->
            [st EXCEPT !.net.forward_policy = "DROP"]
      [] command = "iptables -F FORWARD" -> [st EXCEPT !.net.forward = <<>>]
      [] command = "iptables -t nat -F" -> [st EXCEPT !.net.nat = <<>>]
      [] command = "iptables -t nat -A POSTROUTING" ->
            [st EXCEPT !.net.nat = Append(@, "MASQUERADE from bridge subnet")]
      [] OTHER -> [st EXCEPT !.net.forward = Append(@, command)]

\* the closure `inner`: the commands in order, each `?`
RECURSIVE bridge_commands(_, _, _, _)
bridge_commands(commands, i, st, b) ==
    IF i > Len(commands) THEN [st |-> st, failed |-> 0]
    ELSE IF ~bridge_command_succeeds(commands[i], st)
         THEN [st |-> st, failed |-> i]
         ELSE bridge_commands(commands, i + 1,
                              bridge_command_effect(commands[i], st, b), b)

\* how often a caller runs create_bridge before it goes on
MaxBridgeCalls == 2

\* the calls of create_bridge the launch has made
bridge_calls(l) ==
    Cardinality({i \in DOMAIN plog[l] : plog[l][i].op = "link show"})

\* where the caller goes after create_bridge returned
after_create_bridge(ok) == IF ok THEN "from_bridge" ELSE "failed"

create_bridge(l) ==
    /\ pc[l] = "create_bridge"
    /\ IF link_show_succeeds(hostNet)
       THEN /\ plog' = [plog EXCEPT ![l] = @ \o logged("link show", TRUE)]
            /\ result' = [result EXCEPT ![l] = Some(Ok(None))]
            /\ UNCHANGED <<hostNet, hostAddrs>>
       ELSE LET done == bridge_commands(BridgeCommands(bridge), 1,
                            [net |-> hostNet, addrs |-> hostAddrs], bridge)
            IN  /\ plog' = [plog EXCEPT
                       ![l] = @ \o logged("link show", FALSE)
                                \o issued(BridgeCommands(bridge), done.failed)]
                /\ hostNet' = done.st.net
                /\ hostAddrs' = done.st.addrs
                /\ result' = [result EXCEPT
                       ![l] = IF done.failed = 0 THEN Some(Ok(None))
                              ELSE Some(Err("CreateNetworkBridge"))]
    /\ \/ /\ bridge_calls(l) + 1 < MaxBridgeCalls
          /\ pc' = pc
       \/ pc' = [pc EXCEPT ![l] = after_create_bridge(unwrap(result'[l]).ok)]
    /\ UNCHANGED <<bridge, netns, veth, containerDir, passwd, faulty, spec,
                   handle, childVars, overflow_checks, resolv_conf, calc>>

----------------------------------------------------------------------------
(* BridgedNetworkSpec::from_bridge (the caller builds the spec with it) *)

from_bridge(l) ==
    /\ pc[l] = "from_bridge"
    /\ \/ \* a command of the scan fails
          /\ result' = [result EXCEPT ![l] = Some(Err("IPCommand"))]
          /\ pc' = [pc EXCEPT ![l] = "failed"]
          /\ spec' = spec
       \/ LET found == find_free_ip_address(bridge.ip_address)
          IN  IF found.ok
              THEN /\ spec' = [spec EXCEPT
                         ![l].network.container_ip_address = Some(found.v)]
                   /\ pc' = [pc EXCEPT ![l] = "run"]
                   /\ result' = result
              ELSE /\ result' = [result EXCEPT ![l] = Some(found)]
                   /\ pc' = [pc EXCEPT ![l] = "failed"]
                   /\ spec' = spec
    /\ UNCHANGED <<hostVars, handle, plog, childVars>>

----------------------------------------------------------------------------
(* container::run, the launch driver *)

\* faulty variant: the directory guard is forgotten when no namespace is held
leave_scope_forgets_directory(held) ==
    IF is_some(held) THEN "drop_network_namespace" ELSE "returned"

\* faulty variant: the namespace handle is leaked (mem::forget) instead of dropped
leave_scope_leaks_namespace(held) == "drop_remove_dir"

\* where `run` goes when it leaves its scope after the namespace step: the
\* locals are dropped in reverse order of declaration
leave_scope(held) ==
    IF is_some(held) THEN "drop_network_namespace" ELSE "drop_remove_dir"

\* faulty variant: a failed command of the creation is only logged, and the
\* launch goes on with the namespace as it is
run_create_ignores_failure(l) ==
    /\ pc[l] = "run"
    /\ IF spec[l].network.kind = "Bridged"
       THEN \E fail_at \in 1..(Len(CreateCommands) + 1) :
              LET name == unwrap(network_namespace(spec[l]))
                  done == create_commands(1, fail_at,
                              [ns |-> netns[name], ve |-> veth[name]], l,
                              unwrap(spec[l].network.container_ip_address))
              IN  /\ netns' = [netns EXCEPT ![name] = done.st.ns]
                  /\ veth' = [veth EXCEPT ![name] = done.st.ve]
                  /\ plog' = [plog EXCEPT
                         ![l] = @ \o issued(CreateCommands, done.failed)]
                  /\ handle' = [handle EXCEPT ![l] = Some(name)]
                  /\ pc' = [pc EXCEPT ![l] = "clone"]
                  /\ result' = result
       ELSE /\ pc' = [pc EXCEPT ![l] = "clone"]
            /\ UNCHANGED <<netns, veth, plog, handle, result>>
    /\ UNCHANGED <<fixedVars, bridge, hostAddrs, containerDir, passwd, faulty, spec, childVars>>

\* run, lines 18-23: the RemoveDirGuard is built, then the namespace
run_create(l) ==
    /\ pc[l] = "run"
    /\ IF spec[l].network.kind = "Bridged"
       THEN \E fail_at \in 1..(Len(CreateCommands) + 1) :
              LET name == unwrap(network_namespace(spec[l]))
                  done == create_commands(1, fail_at,
                              [ns |-> netns[name], ve |-> veth[name]], l,
                              unwrap(spec[l].network.container_ip_address))
              IN  /\ netns' = [netns EXCEPT ![name] = done.st.ns]
                  /\ veth' = [veth EXCEPT ![name] = done.st.ve]
                  /\ plog' = [plog EXCEPT
                         ![l] = @ \o issued(CreateCommands, done.failed)]
                  /\ IF done.failed = 0
                     THEN /\ handle' = [handle EXCEPT ![l] = Some(name)]
                          /\ pc' = [pc EXCEPT ![l] = "clone"]
                          /\ result' = result
                     ELSE /\ handle' = handle
                          /\ result' = [result EXCEPT
                                 ![l] = Some(Err("CreateNetworkNamespace"))]
                          /\ pc' = [pc EXCEPT ![l] = leave_scope(handle[l])]
       ELSE /\ pc' = [pc EXCEPT ![l] = "clone"]
            /\ UNCHANGED <<netns, veth, plog, handle, result>>
    /\ UNCHANGED <<fixedVars, bridge, hostAddrs, containerDir, passwd, faulty, spec, childVars>>

\* faulty variant: the child always gets a network namespace of its own
clone_flags_always_newnet(held) ==
    {"CLONE_NEWPID", "CLONE_NEWNS", "CLONE_NEWUTS", "CLONE_NEWNET", "SIGCHLD"}

\* run, lines 36-42: the flags of clone, a union of distinct bits
clone_flags(held) ==
    {"CLONE_NEWPID", "CLONE_NEWNS", "CLONE_NEWUTS", "SIGCHLD"}
    \cup (IF is_some(held) THEN {"CLONE_NEWNET"} ELSE {})

\* the entry of a clone call with its flags
cloned(ok, flags) == <<[op |-> "clone", ok |-> ok, flags |-> flags]>>

\* run, lines 25-44: clone the child
run_clone(l) ==
    /\ pc[l] = "clone"
    /\ \/ /\ plog' = [plog EXCEPT ![l] = @ \o cloned(TRUE, clone_flags(handle[l]))]
          /\ cpc' = [cpc EXCEPT ![l] = "setup_cpu_cgroup"]
          /\ pc' = [pc EXCEPT ![l] = "waitpid"]
          /\ result' = result
       \/ /\ plog' = [plog EXCEPT ![l] = @ \o cloned(FALSE, clone_flags(handle[l]))]
          /\ result' = [result EXCEPT ![l] = Some(Err("Libc"))]
          /\ pc' = [pc EXCEPT ![l] = leave_scope(handle[l])]
          /\ cpc' = cpc
    /\ UNCHANGED <<hostVars, spec, handle, clog, cuser, cerr, cret, cstatus>>

\* faulty variant: a non-zero status of the child is returned as an error
run_waitpid_propagates_status(l) ==
    /\ pc[l] = "waitpid"
    /\ cpc[l] = "exited"
    /\ cpc' = [cpc EXCEPT ![l] = "reaped"]
    /\ \/ /\ plog' = [plog EXCEPT ![l] = @ \o logged("waitpid", TRUE)]
          /\ result' = [result EXCEPT ![l] =
                IF cstatus[l] = Some(0) THEN Some(Ok(None)) ELSE Some(Err("Libc"))]
       \/ /\ plog' = [plog EXCEPT ![l] = @ \o logged("waitpid", FALSE)]
          /\ result' = [result EXCEPT ![l] = Some(Err("Libc"))]
    /\ pc' = [pc EXCEPT ![l] = leave_scope(handle[l])]
    /\ UNCHANGED <<hostVars, spec, handle, clog, cuser, cerr, cret, cstatus>>

\* faulty variant: waitpid returns only for a child that exited with 0
run_waitpid_only_clean_exit(l) ==
    /\ pc[l] = "waitpid"
    /\ cpc[l] = "exited"
    /\ cstatus[l] = Some(0)
    /\ cpc' = [cpc EXCEPT ![l] = "reaped"]
    /\ \/ /\ plog' = [plog EXCEPT ![l] = @ \o logged("waitpid", TRUE)]
          /\ result' = [result EXCEPT ![l] = Some(Ok(None))]
       \/ /\ plog' = [plog EXCEPT ![l] = @ \o logged("waitpid", FALSE)]
          /\ result' = [result EXCEPT ![l] = Some(Err("Libc"))]
    /\ pc' = [pc EXCEPT ![l] = leave_scope(handle[l])]
    /\ UNCHANGED <<hostVars, spec, handle, clog, cuser, cerr, cret, cstatus>>

\* run, lines 46-50 and linux::waitpid: waitpid(pid, &status, 0) blocks
\* until the child has terminated (the parent installs no signal handler
\* that could interrupt it); it then yields the status, which is logged, or
\* fails (ECHILD, when SIGCHLD is ignored and the kernel reaped the child)
run_waitpid(l) ==
    /\ pc[l] = "waitpid"
    /\ cpc[l] = "exited"
    /\ cpc' = [cpc EXCEPT ![l] = "reaped"]
    /\ \/ /\ plog' = [plog EXCEPT ![l] = @ \o logged("waitpid", TRUE)]
          /\ result' = [result EXCEPT ![l] = Some(Ok(None))]
       \/ /\ plog' = [plog EXCEPT ![l] = @ \o logged("waitpid", FALSE)]
          /\ result' = [result EXCEPT ![l] = Some(Err("Libc"))]
    /\ pc' = [pc EXCEPT ![l] = leave_scope(handle[l])]
    /\ UNCHANGED <<hostVars, spec, handle, clog, cuser, cerr, cret, cstatus>>

----------------------------------------------------------------------------
(* Drop for NetworkNamespace: destroy_network_namespace, command by command *)

\* faulty variant: the directory guard is dropped first, the handle after it
destroy_after_directory(l) ==
    /\ pc[l] = "drop_network_namespace"
    /\ containerDir' = [containerDir EXCEPT ![l] = FALSE]
    /\ plog' = [plog EXCEPT ![l] = @ \o logged("remove_dir_all", containerDir[l])
                                     \o logged("netns del", FALSE)]
    /\ pc' = [pc EXCEPT ![l] = "drop_remove_dir"]
    /\ UNCHANGED <<fixedVars, bridge, hostAddrs, netns, veth, passwd, faulty, spec,
                   handle, result, childVars>>

\* `ip netns del <name>`; the namespace takes the veth end inside it along,
\* and the kernel removes the host end of the pair then or a little later
destroy_netns_del(l) ==
    /\ pc[l] = "drop_network_namespace"
    /\ LET name == unwrap(handle[l])
       IN  \/ /\ netns[name].exists
              /\ netns' = [netns EXCEPT ![name] = NoNs]
              /\ \/ veth' = [veth EXCEPT ![name] =
                        IF @.peer = "netns" THEN NoVeth ELSE @]
                 \/ /\ veth[name].peer = "netns"
                    /\ veth' = [veth EXCEPT ![name] =
                           [@ EXCEPT !.peer = "none", !.peer_up = FALSE,
                                     !.addr = None]]
              /\ plog' = [plog EXCEPT ![l] = @ \o logged("netns del", TRUE)]
              /\ pc' = [pc EXCEPT ![l] = "drop_link_del"]
           \/ \* the command fails: the error is logged, `link del` is skipped
              /\ plog' = [plog EXCEPT ![l] = @ \o logged("netns del", FALSE)]
              /\ pc' = [pc EXCEPT ![l] = "drop_remove_dir"]
              /\ UNCHANGED <<netns, veth>>
    /\ UNCHANGED <<fixedVars, bridge, hostAddrs, containerDir, passwd, faulty, spec,
                   handle, result, childVars>>

\* faulty variant: the teardown removes the bridge with the veth
destroy_link_del_and_bridge(l) ==
    /\ pc[l] = "drop_link_del"
    /\ LET name == unwrap(handle[l])
       IN  \/ /\ veth[name].host
              /\ veth' = [veth EXCEPT ![name] = NoVeth]
              /\ plog' = [plog EXCEPT ![l] = @ \o logged("link del", TRUE)]
           \/ /\ plog' = [plog EXCEPT ![l] = @ \o logged("link del", FALSE)]
              /\ veth' = veth
    /\ pc' = [pc EXCEPT ![l] = "drop_remove_dir"]
    /\ hostNet' = [hostNet EXCEPT !.link = "absent"]
    /\ hostAddrs' = hostAddrs \ {bridge.ip_address}
    /\ UNCHANGED <<overflow_checks, resolv_conf, calc, bridge, netns, containerDir, passwd,
                   faulty, spec, handle, result, childVars>>

\* `ip link del <name>-host`
destroy_link_del(l) ==
    /\ pc[l] = "drop_link_del"
    /\ LET name == unwrap(handle[l])
       IN  \/ /\ veth[name].host
              /\ veth' = [veth EXCEPT ![name] = NoVeth]
              /\ plog' = [plog EXCEPT ![l] = @ \o logged("link del", TRUE)]
           \/ /\ plog' = [plog EXCEPT ![l] = @ \o logged("link del", FALSE)]
              /\ veth' = veth
    /\ pc' = [pc EXCEPT ![l] = "drop_remove_dir"]
    /\ UNCHANGED <<fixedVars, bridge, hostAddrs, netns, containerDir, passwd, faulty,
                   spec, handle, result, childVars>>

----------------------------------------------------------------------------
(* Drop for RemoveDirGuard; `run` has returned after it *)

drop_remove_dir(l) ==
    /\ pc[l] = "drop_remove_dir"
    /\ \/ /\ containerDir[l]
          /\ containerDir' = [containerDir EXCEPT ![l] = FALSE]
          /\ plog' = [plog EXCEPT ![l] = @ \o logged("remove_dir_all", TRUE)]
       \/ /\ plog' = [plog EXCEPT ![l] = @ \o logged("remove_dir_all", FALSE)]
          /\ containerDir' = containerDir
    /\ pc' = [pc EXCEPT ![l] = "returned"]
    /\ UNCHANGED <<fixedVars, bridge, hostAddrs, netns, veth, passwd, faulty, spec,
                   handle, result, childVars>>

----------------------------------------------------------------------------
(* User records and the user selector (model.rs, spec.rs) *)

User(username, id, group_id, home_folder) ==
    [username |-> username, id |-> id, group_id |-> group_id,
     home_folder |-> home_folder]

Unknown == <<"u", "n", "k", "n", "o", "w", "n">>
SlashRoot == <<"/", "r", "o", "o", "t">>

\* users.insert(user_id, ..): the record replaces one with the same id
insert(users, user) == {u \in users : u.id # user.id} \cup {user}

\* whether the line makes from_passwd_file panic: six fields or more, and
\* i32::from_str(..).unwrap() of the third or the fourth fails
line_panics(line) ==
    LET parts == str_split(line, ":")
    IN  /\ Len(parts) >= 6
        /\ ~(i32_from_str(parts[3]).ok /\ i32_from_str(parts[4]).ok)

\* the loop of from_passwd_file over content.lines(): the map after the lines
RECURSIVE passwd_lines(_, _)
passwd_lines(lines, users) ==
    IF lines = <<>> THEN users
    ELSE LET parts == str_split(Head(lines), ":")
         IN  IF Len(parts) >= 6
             THEN passwd_lines(Tail(lines),
                      insert(users, User(parts[1], i32_from_str(parts[3]).v,
                                         Some(i32_from_str(parts[4]).v), parts[6])))
             ELSE passwd_lines(Tail(lines), users)

\* User::from_passwd_file on the file (None: it cannot be opened); the
\* function panics at the first line whose numbers do not parse
from_passwd_file_panics(file) ==
    is_some(file) /\ \E i \in DOMAIN unwrap(file) : line_panics(unwrap(file)[i])

\* the map it returns otherwise, as the set of its values
from_passwd_file(file) ==
    IF is_some(file) /\ ~from_passwd_file_panics(file)
    THEN passwd_lines(unwrap(file), {}) ELSE {}

UserSpec_Name(name) == [kind |-> "Name", name |-> name, id |-> 0, group_id |-> 0]
UserSpec_Id(id) == [kind |-> "Id", name |-> <<>>, id |-> id, group_id |-> 0]
UserSpec_IdAndGroupId(id, group_id) ==
    [kind |-> "IdAndGroupId", name |-> <<>>, id |-> id, group_id |-> group_id]

\* faulty variant: IdAndGroupId looks at the uid alone
find_user_ignores_group(user_spec, users) ==
    LET matches ==
            {u \in users :
                CASE user_spec.kind = "Name" -> u.username = user_spec.name
                  [] OTHER -> u.id = user_spec.id}
    IN  IF matches # {} THEN {Some(u) : u \in matches}
        ELSE CASE user_spec.kind = "Name" -> {None}
               [] user_spec.kind = "Id" ->
                    {Some(User(Unknown, user_spec.id, None, SlashRoot))}
               [] OTHER ->
                    {Some(User(Unknown, user_spec.id,
                               Some(user_spec.group_id), SlashRoot))}

\* UserSpec::find_user: the Options it can return (the map's values are
\* visited in no fixed order, the first match is returned)
find_user(user_spec, users) ==
    LET matches ==
            {u \in users :
                CASE user_spec.kind = "Name" -> u.username = user_spec.name
                  [] user_spec.kind = "Id" -> u.id = user_spec.id
                  [] OTHER -> /\ u.id = user_spec.id
                              /\ u.group_id = Some(user_spec.group_id)}
    IN  IF matches # {} THEN {Some(u) : u \in matches}
        ELSE CASE user_spec.kind = "Name" -> {None}
               [] user_spec.kind = "Id" ->
                    {Some(User(Unknown, user_spec.id, None, SlashRoot))}
               [] OTHER ->
                    {Some(User(Unknown, user_spec.id,
                               Some(user_spec.group_id), SlashRoot))}

\* RunContainerSpec::user: None without a selector, else what find_user gives
\* (a None of find_user is the error InvalidUser)
resolved_users(s, users) ==
    IF is_some(s.user) THEN find_user(unwrap(s.user), users) ELSE {None}

----------------------------------------------------------------------------
(* The cloned child: clone_callback and execute (container.rs) *)

optional(o, op) == IF is_some(o) THEN <<op>> ELSE <<>>

\* faulty variant: the quota is written before the process is in the cgroup
setup_cpu_cgroup_ops_quota_first(s) ==
    <<"mkdir cgroup">> \o optional(s.cpu_shares, "write cpu.shares") \o <<"write tasks">>

setup_cpu_cgroup_ops(s) ==
    <<"mkdir cgroup", "write tasks">> \o optional(s.cpu_shares, "write cpu.shares")

setup_memory_cgroup_ops(s) ==
    <<"mkdir cgroup", "write tasks">>
    \o optional(s.memory, "write memory.limit_in_bytes")
    \o optional(s.memory_swap, "write memory.memsw.limit_in_bytes")

\* execute, lines 57-59, and setup_network
setup_network_ops(s) ==
    IF is_some(network_namespace(s))
    THEN <<"open netns", "setns">> \o optional(hostname(s), "sethostname")
    ELSE <<>>

create_container_root_ops == <<"mkdir container root", "mount overlay">>

\* servers.iter().map(..).collect::<Vec<_>>().join("\n")
RECURSIVE join(_, _)
join(texts, separator) ==
    IF texts = <<>> THEN <<>>
    ELSE IF Len(texts) = 1 THEN Head(texts)
    ELSE Head(texts) \o separator \o join(Tail(texts), separator)

Nameserver == <<"n", "a", "m", "e", "s", "e", "r", "v", "e", "r", " ">>

\* setup_dns, lines 235-244: the content of the new root's etc/resolv.conf
resolv_content(dns) ==
    IF dns.kind = "Server"
    THEN join([i \in DOMAIN dns.servers |-> Nameserver \o dns.servers[i]],
              <<"\n">>) \o <<"\n">>
    ELSE resolv_conf

setup_dns_ops(s) ==
    (IF s.dns.kind = "CopyFromHost" THEN <<"read /etc/resolv.conf">> ELSE <<>>)
    \o <<"write resolv.conf">>

\* execute, lines 68-72
find_user_ops(s) ==
    <<"read passwd", "parse passwd">> \o optional(s.user, "find_user")

setup_mounts_ops ==
    <<"mount proc", "mount sysfs", "mount tmpfs", "mkdir dev/pts", "mount devpts">>

setup_devices_ops ==
    <<"symlink stdin", "symlink stdout", "symlink stderr",
      "mknod null", "mknod zero", "mknod random", "mknod urandom",
      "mknod console", "mknod tty", "mknod full">>

RECURSIVE bind_mount_ops(_)
bind_mount_ops(bind_mounts) ==
    IF bind_mounts = <<>> THEN <<>>
    ELSE <<"mkdir bind target", "mount bind">> \o bind_mount_ops(Tail(bind_mounts))

\* faulty variant: the bind mounts are made after the pivot
setup_container_root_ops_pivot_first(s) ==
    setup_mounts_ops \o setup_devices_ops
    \o <<"mkdir old_root", "pivot_root", "chdir", "umount2 old_root", "rmdir old_root">>
    \o bind_mount_ops(s.bind_mounts)

setup_container_root_ops(s) ==
    setup_mounts_ops \o setup_devices_ops \o <<"mkdir old_root">>
    \o bind_mount_ops(s.bind_mounts)
    \o <<"pivot_root", "chdir", "umount2 old_root", "rmdir old_root">>

\* faulty variant: the uid is dropped before the gid is set
setup_user_ops_uid_first(user) ==
    IF is_some(user)
    THEN <<"set HOME", "setuid">> \o optional(unwrap(user).group_id, "setgid")
    ELSE <<>>

\* execute, lines 81-83, and setup_user
setup_user_ops(user) ==
    IF is_some(user)
    THEN <<"set HOME">> \o optional(unwrap(user).group_id, "setgid") \o <<"setuid">>
    ELSE <<>>

Slash == <<"/">>

\* execute, lines 74-77: the home folder of the user, or / without one
working_dir(user) ==
    IF is_some(user) THEN unwrap(user).home_folder ELSE Slash

\* what the operation is given: the namespace opened under /run/netns, the
\* name of sethostname, the content written to resolv.conf, the directory
\* of chdir, the value of HOME, the ids of setgid and setuid
op_argument(l, op) ==
    CASE op = "open netns" -> network_namespace(spec[l])
      [] op = "sethostname" -> hostname(spec[l])
      [] op = "write resolv.conf" -> Some(resolv_content(spec[l].dns))
      [] op = "chdir" -> Some(working_dir(cuser[l]))
      [] op = "set HOME" -> Some(unwrap(cuser[l]).home_folder)
      [] op = "setgid" -> unwrap(cuser[l]).group_id
      [] op = "setuid" -> Some(unwrap(cuser[l]).id)
      [] OTHER -> None

\* whether the operation can succeed in the current state
op_can_succeed(l, op) ==
    CASE op = "open netns" -> netns[unwrap(network_namespace(spec[l]))].exists
      [] op = "parse passwd" -> ~from_passwd_file_panics(passwd)
      [] op = "find_user" ->
            resolved_users(spec[l], from_passwd_file(passwd)) # {None}
      [] OTHER -> TRUE

\* whether the operation can fail: std::env::set_var returns nothing, and
\* parsing and find_user depend on the file's content alone
op_can_fail(l, op) ==
    (op \in faulty /\ op \notin {"set HOME", "parse passwd", "find_user"})
    \/ ~op_can_succeed(l, op)

\* the operations whose failure is a panic: create_dir_all(..).unwrap()
op_panics(op) == op \in {"mkdir dev/pts", "parse passwd"}

\* the error `execute` returns when the operation fails in the stage
error_of(stage, op) ==
    CASE stage = "setup_cpu_cgroup" -> "SetupCpuCgroup"
      [] stage = "setup_memory_cgroup" -> "SetupMemoryCgroup"
      [] stage = "setup_network" -> "SetupNetwork"
      [] stage = "mount_private" -> "Mount"
      [] stage = "create_container_root" ->
            IF op = "mount overlay" THEN "Mount" ELSE "IO"
      [] stage = "setup_dns" ->
            IF op = "write resolv.conf" THEN "SetupDNS" ELSE "IO"
      [] stage = "find_user" -> IF op = "find_user" THEN "InvalidUser" ELSE "IO"
      [] stage = "setup_container_root" -> "SetupContainerRoot"
      [] stage = "setup_user" -> "SetupUser"
      [] OTHER -> "Execute"

\* clone_callback: -1 when execute returned an error, 0 when it returned Ok
clone_callback(execute_result) == IF execute_result.ok THEN 0 ELSE -1

\* the wait status of a process that exits with the (8-bit) code
exit_status(code) == (code % 256) * 256

\* what a panic in the child ends in: SIGABRT (6) with the core flag (128)
AbortStatus == 6 + 128

stage_entries(l, stage, ops, n, failed) ==
    [i \in 1..n |-> [stage |-> stage, op |-> ops[i], ok |-> i # failed,
                     arg |-> op_argument(l, ops[i])]]

\* how many of the operations can succeed before one fails (all of them:
\* none fails)
outcomes(l, ops) ==
    {k \in 0..Len(ops) :
        /\ \A i \in 1..k : op_can_succeed(l, ops[i])
        /\ k < Len(ops) => op_can_fail(l, ops[k + 1])}

\* A stage of `execute`: its operations in order, each `?`.  k operations
\* succeed; when k is not all of them the next one fails, `execute` returns
\* its error, the trampoline returns and the child exits.
performs(l, stage, ops, then, k) ==
    /\ containerDir' =
          IF \E i \in 1..k : ops[i] = "mkdir container root"
          THEN [containerDir EXCEPT ![l] = TRUE] ELSE containerDir
    /\ IF k = Len(ops)
       THEN /\ clog' = [clog EXCEPT ![l] = @ \o stage_entries(l, stage, ops, k, 0)]
            /\ cpc' = [cpc EXCEPT ![l] = then]
            /\ UNCHANGED <<cerr, cret, cstatus>>
       ELSE /\ clog' = [clog EXCEPT
                   ![l] = @ \o stage_entries(l, stage, ops, k + 1, k + 1)]
            /\ cpc' = [cpc EXCEPT ![l] = "exited"]
            /\ IF op_panics(ops[k + 1])
               THEN /\ cstatus' = [cstatus EXCEPT ![l] = Some(AbortStatus)]
                    /\ UNCHANGED <<cerr, cret>>
               ELSE LET err == Err(error_of(stage, ops[k + 1]))
                    IN  /\ cerr' = [cerr EXCEPT ![l] = Some(err.e)]
                        /\ cret' = [cret EXCEPT ![l] = Some(clone_callback(err))]
                        /\ cstatus' = [cstatus EXCEPT
                               ![l] = Some(exit_status(clone_callback(err)))]

perform(l, stage, ops, then) ==
    \E k \in outcomes(l, ops) : performs(l, stage, ops, then, k)

childFrame == <<fixedVars, bridge, hostAddrs, netns, veth, passwd, faulty, spec, handle,
                pc, result, plog>>

setup_cpu_cgroup(l) ==
    /\ cpc[l] = "setup_cpu_cgroup"
    /\ perform(l, "setup_cpu_cgroup", setup_cpu_cgroup_ops(spec[l]),
               "setup_memory_cgroup")
    /\ UNCHANGED <<childFrame, cuser>>

\* faulty variant: the namespace is not joined: execute goes on with the mounts
setup_memory_cgroup_then_mounts(l) ==
    /\ cpc[l] = "setup_memory_cgroup"
    /\ perform(l, "setup_memory_cgroup", setup_memory_cgroup_ops(spec[l]),
               "mount_private")
    /\ UNCHANGED <<childFrame, cuser>>

setup_memory_cgroup(l) ==
    /\ cpc[l] = "setup_memory_cgroup"
    /\ perform(l, "setup_memory_cgroup", setup_memory_cgroup_ops(spec[l]),
               "setup_network")
    /\ UNCHANGED <<childFrame, cuser>>

setup_network(l) ==
    /\ cpc[l] = "setup_network"
    /\ perform(l, "setup_network", setup_network_ops(spec[l]), "mount_private")
    /\ UNCHANGED <<childFrame, cuser>>

\* faulty variant: the propagation of / is left as it is
mount_private_omitted(l) ==
    /\ cpc[l] = "mount_private"
    /\ perform(l, "mount_private", <<>>, "create_container_root")
    /\ UNCHANGED <<childFrame, cuser>>

mount_private(l) ==
    /\ cpc[l] = "mount_private"
    /\ perform(l, "mount_private", <<"mount / private">>, "create_container_root")
    /\ UNCHANGED <<childFrame, cuser>>

create_container_root(l) ==
    /\ cpc[l] = "create_container_root"
    /\ perform(l, "create_container_root", create_container_root_ops, "setup_dns")
    /\ UNCHANGED <<childFrame, cuser>>

setup_dns(l) ==
    /\ cpc[l] = "setup_dns"
    /\ perform(l, "setup_dns", setup_dns_ops(spec[l]), "find_user")
    /\ UNCHANGED <<childFrame, cuser>>

resolve_user(l) ==
    /\ cpc[l] = "find_user"
    /\ \E k \in outcomes(l, find_user_ops(spec[l])) :
          /\ performs(l, "find_user", find_user_ops(spec[l]),
                      "setup_container_root", k)
          /\ IF k = Len(find_user_ops(spec[l]))
             THEN \E user \in resolved_users(spec[l], from_passwd_file(passwd)) :
                      cuser' = [cuser EXCEPT ![l] = user]
             ELSE cuser' = cuser
    /\ UNCHANGED childFrame

setup_container_root(l) ==
    /\ cpc[l] = "setup_container_root"
    /\ perform(l, "setup_container_root", setup_container_root_ops(spec[l]),
               "setup_user")
    /\ UNCHANGED <<childFrame, cuser>>

setup_user(l) ==
    /\ cpc[l] = "setup_user"
    /\ perform(l, "setup_user", setup_user_ops(cuser[l]), "exec")
    /\ UNCHANGED <<childFrame, cuser>>

\* linux::exec: execvp replaces the process image when it succeeds
exec(l) ==
    /\ cpc[l] = "exec"
    /\ perform(l, "exec", <<"execvp">>, "execed")
    /\ UNCHANGED <<childFrame, cuser>>

\* the container's command runs and ends: exit 0, exit 1, or killed (OOM)
ExitStatuses == {exit_status(0), exit_status(1), 9}

command_exits(l) ==
    /\ cpc[l] = "execed"
    /\ \E status \in ExitStatuses :
          cstatus' = [cstatus EXCEPT ![l] = Some(status)]
    /\ cpc' = [cpc EXCEPT ![l] = "exited"]
    /\ UNCHANGED <<childFrame, containerDir, clog, cuser, cerr, cret>>

----------------------------------------------------------------------------
(* The Ipv4Net functions applied on their own: calc.fn names the function, *)
(* calc.net and calc.text are its inputs, calc.out what it gave            *)

\* how often `next` is applied in a row
MaxNext == 8

Calc(fn, net, text) ==
    [fn |-> fn, net |-> net, text |-> text, steps |-> 0, out |-> None]

\* a panic of the function, as its outcome
Panic == Err("panic")

calcFrame ==
    <<bridge, hostAddrs, netns, veth, containerDir, spec, passwd, faulty,
      handle, pc, result, plog, childVars, hostNet, overflow_checks,
      resolv_conf>>

apply_subnet_mask ==
    /\ calc.fn = "subnet_mask"
    /\ calc.out = None
    /\ calc' = [calc EXCEPT !.out =
                   IF subnet_mask_panics(calc.net) THEN Some(Panic)
                   ELSE Some(Ok(subnet_mask(calc.net)))]
    /\ UNCHANGED calcFrame

apply_next ==
    /\ calc.fn = "next"
    /\ calc.steps < MaxNext
    /\ calc.out # Some(Panic)
    /\ LET current == IF is_some(calc.out) THEN unwrap(calc.out).v ELSE calc.net
       IN  calc' = [calc EXCEPT
                      !.steps = @ + 1,
                      !.out = IF subnet_mask_panics(current) THEN Some(Panic)
                              ELSE Some(Ok(next(current)))]
    /\ UNCHANGED calcFrame

\* Display: the text of calc.net
apply_to_string ==
    /\ calc.fn = "round_trip"
    /\ calc.text = None
    /\ calc' = [calc EXCEPT !.text = Some(Ipv4Net_to_string(calc.net))]
    /\ UNCHANGED calcFrame

\* FromStr: the parse of calc.text
apply_from_str ==
    /\ calc.fn \in {"round_trip", "from_str"}
    /\ is_some(calc.text)
    /\ calc.out = None
    /\ calc' = [calc EXCEPT !.out = Some(Ipv4Net_from_str(unwrap(calc.text)))]
    /\ UNCHANGED calcFrame

----------------------------------------------------------------------------
(* Initial states *)

\* how many of the addresses after the bridge's are taken on the host
MaxUsed == 3

\* how many bind mounts a launch asks for
MaxBindMounts == 1

Cort0 == <<"c", "o", "r", "t", "0">>

\* BridgeSpec::get_default: cort0 with 10.10.1.1/16
DefaultBridgeAddress == Ipv4Net_new(Ipv4Addr(10, 10, 1, 1), 16)

\* other bridge addresses: small subnets, and a base next to the broadcast
\* and one a few addresses before the broadcast address of the default subnet
OtherBridgeAddresses ==
    {Ipv4Net_new(Ipv4Addr(10, 10, 1, 1), 29),
     Ipv4Net_new(Ipv4Addr(10, 10, 1, 6), 29),
     Ipv4Net_new(Ipv4Addr(10, 10, 1, 1), 30),
     Ipv4Net_new(Ipv4Addr(10, 10, 255, 251), 16)}

\* the n addresses that follow `net`
RECURSIVE following(_, _)
following(net, n) ==
    IF n = 0 THEN {} ELSE {next(net)} \cup following(next(net), n - 1)

\* a host interface that carries the address after the bridge's under
\* another prefix length, or an address whose text ends in that address's
OddHostAddresses(base) ==
    [none |-> {},
     other_prefix |-> {Ipv4Net_new(next(base).address, 24)},
     longer_text |-> {LET o == octets(next(base).address)
                      IN  Ipv4Net_new(Ipv4Addr(o[1] + 100, o[2], o[3], o[4]),
                                      base.subnet_cidr)}]

\* a namespace with a configured veth end that holds ip
StaleNamespace(ip) ==
    [ns |-> [NoNs EXCEPT !.exists = TRUE, !.lo_up = TRUE, !.route = TRUE],
     ve |-> [NoVeth EXCEPT !.host = TRUE, !.peer = "netns", !.host_master = TRUE,
                           !.host_up = TRUE, !.peer_up = TRUE, !.addr = Some(ip)]]

DNSSpec_Server(servers) == [kind |-> "Server", servers |-> servers]

\* Default for DNSSpec
DefaultDns == DNSSpec_Server(<<<<"8", ".", "8", ".", "8", ".", "8">>, <<"8", ".", "8", ".", "4", ".", "4">>>>)
CopyFromHost == [kind |-> "CopyFromHost", servers |-> <<>>]

Ubuntu == <<"u", "b", "u", "n", "t", "u">>
Alice == <<"a", "l", "i", "c", "e">>

\* the etc/passwd of the image
ImagePasswd ==
    Some(<<<<"r", "o", "o", "t", ":", "x", ":", "0", ":", "0", ":", "r", "o", "o", "t", ":", "/", "r", "o", "o", "t", ":", "/", "b", "i", "n", "/", "s", "h">>,
           <<"u", "b", "u", "n", "t", "u", ":", "x", ":", "1", "0", "0", "0", ":", "1", "0", "0", "0", ":", ":", "/", "h", "o", "m", "e", "/", "u", "b", "u", "n", "t", "u", ":", "/", "b", "i", "n", "/", "s", "h">>>>)

BindMounts ==
    UNION {[1..n -> {[source |-> "/tmp/host", target |-> "/mnt/in"]}] :
              n \in 0..MaxBindMounts}

\* the name the container is given (`name`, a field of its own beside `id`)
Alpine0 == <<"a", "l", "p", "i", "n", "e", "0">>

\* a launch as the command line asks for it; `network` is completed by
\* from_bridge for a bridged launch
RunContainerSpec(id, kind, host_name, dns, user, cpu_shares, memory, memory_swap, bind_mounts) ==
    [id |-> id, name |-> Alpine0,
     network |-> IF kind = "Host" THEN HostNetwork
                 ELSE [kind |-> "Bridged", bridge_interface |-> Some(bridge.interface),
                       bridge_ip_address |-> Some(bridge.ip_address),
                       container_ip_address |-> None, hostname |-> host_name],
     dns |-> dns, user |-> user, cpu_shares |-> cpu_shares, memory |-> memory,
     memory_swap |-> memory_swap, bind_mounts |-> bind_mounts]

\* the launch of the prototype's main: no user, cpu shares and memory set
PlainSpec(id, kind) ==
    RunContainerSpec(id, kind, None, DefaultDns, None, Some(256),
                     Some(1048576), None, <<>>)

\* every operation of the child
ChildOps ==
    LET all == setup_cpu_cgroup_ops([cpu_shares |-> Some(0)])
               \o setup_memory_cgroup_ops([memory |-> Some(0), memory_swap |-> Some(0)])
               \o <<"open netns", "setns", "sethostname", "mount / private">>
               \o create_container_root_ops
               \o <<"read /etc/resolv.conf", "write resolv.conf", "read passwd",
                    "find_user">>
               \o setup_container_root_ops([bind_mounts |-> <<1>>])
               \o <<"set HOME", "setgid", "setuid", "execvp">>
    IN  {all[i] : i \in DOMAIN all}

\* one operation of the child for each way it can end: an error before the
\* container directory is written to, one after, a panic, a failed exec
SomeChildOps == {"write tasks", "mount overlay", "mkdir dev/pts", "execvp"}

Eth0 == <<"e", "t", "h", "0">>

\* the bridge interface and the firewall after create_bridge made them
BridgeCreated(b) ==
    [link |-> "up", ip_forward |-> "1", forward_policy |-> "DROP",
     forward |-> SubSeq(BridgeCommands(b), 7, 7)
                 \o (IF is_some(b.physical_interface)
                     THEN SubSeq(BridgeCommands(b), 10, 11) ELSE <<>>),
     nat |-> IF is_some(b.physical_interface)
             THEN <<"MASQUERADE from bridge subnet">> ELSE <<>>]

\* the /etc/resolv.conf of a host behind a home router
HostResolvConf == <<"n", "a", "m", "e", "s", "e", "r", "v", "e", "r", " ", "1", "9", "2", ".", "1", "6", "8", ".", "1", ".", "1", "\n">>

\* nothing is being computed outside a launch
NoCalc == [fn |-> "none"]

\* a launch: a build without overflow checks (with the prefix lengths of
\* the bridges, 16 to 30, both builds compute the same)
InitBuild ==
    /\ overflow_checks = FALSE
    /\ calc = NoCalc
    /\ resolv_conf = HostResolvConf

\* the host before any launch: the bridge exists and carries its address
InitHost(bases, used, odd, stale, faults) ==
    /\ bridge \in {[interface |-> Cort0, ip_address |-> b,
                     physical_interface |-> Some(Eth0)] : b \in bases}
    /\ hostNet = BridgeCreated(bridge)
    /\ hostAddrs \in
          {{Loopback, bridge.ip_address} \cup following(bridge.ip_address, n)
              \cup OddHostAddresses(bridge.ip_address)[o] :
           n \in used, o \in odd}
    /\ \E where \in stale :
          /\ netns = [n \in NsNames |->
                IF n = where THEN StaleNamespace(next(bridge.ip_address)).ns
                ELSE NoNs]
          /\ veth = [n \in NsNames |->
                IF n = where THEN StaleNamespace(next(bridge.ip_address)).ve
                ELSE NoVeth]
    /\ faulty = faults

\* the launches in `present` are about to start with the given specs; the
\* caller has created each container working directory
InitLaunchesAt(present, specs, start) ==
    /\ spec \in specs
    /\ containerDir = [l \in Launches |-> l \in present]
    /\ pc = [l \in Launches |->
                IF l \notin present THEN "absent"
                ELSE IF spec[l].network.kind # "Bridged" THEN "run"
                ELSE start]
    /\ handle = [l \in Launches |-> None]
    /\ result = [l \in Launches |-> None]
    /\ plog = [l \in Launches |-> <<>>]
    /\ cpc = [l \in Launches |-> "none"]
    /\ clog = [l \in Launches |-> <<>>]
    /\ cuser = [l \in Launches |-> None]
    /\ cerr = [l \in Launches |-> None]
    /\ cret = [l \in Launches |-> None]
    /\ cstatus = [l \in Launches |-> None]

InitLaunches(present, specs) == InitLaunchesAt(present, specs, "from_bridge")

\* two launches on the default bridge: the second shares the first's id
\* prefix or not, and is bridged or on the host network
Init ==
    /\ InitHost({DefaultBridgeAddress}, {0}, {"none"}, {"none"}, SomeChildOps)
    /\ passwd = ImagePasswd
    /\ InitBuild
    /\ InitLaunches(Launches,
          {[l \in Launches |-> IF l = "a" THEN PlainSpec(IdA, "Bridged")
                               ELSE PlainSpec(id, kind)] :
              id \in {IdB, IdC}, kind \in {"Host", "Bridged"}})

\* one bridged launch on a host whose addresses and namespaces vary
InitScan ==
    /\ InitHost({DefaultBridgeAddress} \cup OtherBridgeAddresses, 0..MaxUsed,
                {"none", "other_prefix", "longer_text"},
                {"none", StaleNs, ForeignNs}, SomeChildOps)
    /\ passwd = ImagePasswd
    /\ InitBuild
    /\ InitLaunches({"a"},
          {[l \in Launches |-> PlainSpec(IF l = "a" THEN IdA ELSE IdC, "Bridged")]})

\* one launch whose specification varies
InitLaunch ==
    /\ InitHost({DefaultBridgeAddress}, {0}, {"none"}, {"none"}, ChildOps)
    /\ passwd = ImagePasswd
    /\ InitBuild
    /\ InitLaunches({"a"},
          {[l \in Launches |->
               IF l = "a"
               THEN RunContainerSpec(IdA, kind, host_name, dns, user, cpu_shares,
                                     limits[1], limits[2], bind_mounts)
               ELSE PlainSpec(IdC, "Host")] :
              kind \in {"Host", "Bridged"},
              host_name \in {None, Some("web")},
              dns \in {DefaultDns, CopyFromHost},
              user \in {None, Some(UserSpec_Name(Ubuntu)),
                        Some(UserSpec_Name(Alice)), Some(UserSpec_Id(4242))},
              cpu_shares \in {None, Some(256)},
              limits \in {<<None, None>>, <<Some(1048576), None>>,
                          <<Some(1048576), Some(2097152)>>},
              bind_mounts \in BindMounts})

\* the commands of create_bridge the environment can make fail
BridgeFaults ==
    {"link add bridge", "addr add bridge", "iptables -F FORWARD",
     "iptables -t nat -A POSTROUTING"}

\* the bridge interface before the launch: absent on a fresh host or on one
\* with forwarding and firewall rules of its own, left by an earlier run, or
\* left without address and rules by a create_bridge that failed
BridgeHosts(b) ==
    {NoBridge,
     [NoBridge EXCEPT !.ip_forward = "1", !.forward = <<"user rule">>,
                      !.nat = <<"user rule">>],
     BridgeCreated(b),
     [NoBridge EXCEPT !.link = "up"]}

\* one bridged launch that starts with create_bridge
InitBridge ==
    /\ bridge \in {[interface |-> Cort0, ip_address |-> DefaultBridgeAddress,
                     physical_interface |-> p] : p \in {None, Some(Eth0)}}
    /\ hostNet \in BridgeHosts(bridge)
    /\ hostAddrs = {Loopback} \cup (IF hostNet = BridgeCreated(bridge)
                                    THEN {bridge.ip_address} ELSE {})
    /\ netns = [n \in NsNames |-> NoNs]
    /\ veth = [n \in NsNames |-> NoVeth]
    /\ faulty \in {{}} \cup {{c} : c \in BridgeFaults}
    /\ passwd = ImagePasswd
    /\ InitBuild
    /\ InitLaunchesAt({"a"},
          {[l \in Launches |-> PlainSpec(IF l = "a" THEN IdA ELSE IdC, "Bridged")]},
          "create_bridge")

Root == <<"r", "o", "o", "t">>

\* the etc/passwd files of the images: none, the usual one, one with a line
\* of five fields, one with two names for a uid, one with two groups for a
\* uid, one with a compat line whose numbers are empty
PasswdFiles ==
    {None,
     ImagePasswd,
     Some(<<<<"r", "o", "o", "t", ":", "x", ":", "0", ":", "0", ":", "r", "o", "o", "t", ":", "/", "r", "o", "o", "t", ":", "/", "b", "i", "n", "/", "s", "h">>,
            <<"a", "l", "i", "c", "e", ":", "x", ":", "1", "0", "0", "0", ":", "1", "0", "0", "0", ":", "/", "h", "o", "m", "e", "/", "a", "l", "i", "c", "e">>>>),
     Some(<<<<"r", "o", "o", "t", ":", "x", ":", "0", ":", "0", ":", "r", "o", "o", "t", ":", "/", "r", "o", "o", "t", ":", "/", "b", "i", "n", "/", "s", "h">>,
            <<"t", "o", "o", "r", ":", "x", ":", "0", ":", "0", ":", ":", "/", "r", "o", "o", "t", ":", "/", "b", "i", "n", "/", "s", "h">>>>),
     Some(<<<<"a", "l", "i", "c", "e", ":", "x", ":", "1", "0", "0", "0", ":", "5", "0", ":", ":", "/", "h", "o", "m", "e", "/", "a", "l", "i", "c", "e", ":", "/", "b", "i", "n", "/", "s", "h">>,
            <<"u", "b", "u", "n", "t", "u", ":", "x", ":", "1", "0", "0", "0", ":", "1", "0", "0", "0", ":", ":", "/", "h", "o", "m", "e", "/", "u", "b", "u", "n", "t", "u", ":", "/", "b", "i", "n", "/", "s", "h">>>>),
     Some(<<<<"u", "b", "u", "n", "t", "u", ":", "x", ":", "1", "0", "0", "0", ":", "1", "0", "0", "0", ":", ":", "/", "h", "o", "m", "e", "/", "u", "b", "u", "n", "t", "u", ":", "/", "b", "i", "n", "/", "s", "h">>,
            <<"+", ":", ":", ":", ":", ":", ":">>>>)}

Selectors ==
    {UserSpec_Name(Ubuntu), UserSpec_Name(Alice), UserSpec_Name(Root),
     UserSpec_Id(0), UserSpec_Id(1000), UserSpec_Id(4242),
     UserSpec_IdAndGroupId(1000, 1000), UserSpec_IdAndGroupId(1000, 50)}

\* one launch with a user selector on an image whose etc/passwd varies
InitUser ==
    /\ InitHost({DefaultBridgeAddress}, {0}, {"none"}, {"none"}, {"execvp"})
    /\ passwd \in PasswdFiles
    /\ InitBuild
    /\ InitLaunches({"a"},
          {[l \in Launches |->
               IF l = "a"
               THEN RunContainerSpec(IdA, kind, None, DefaultDns, Some(user),
                                     None, None, None, <<>>)
               ELSE PlainSpec(IdC, "Host")] :
              kind \in {"Host", "Bridged"}, user \in Selectors})

\* the addresses and the texts the functions are applied to
CalcAddresses ==
    {Ipv4Addr(127, 0, 0, 1), Ipv4Addr(127, 41, 12, 1), Ipv4Addr(10, 10, 1, 1),
     Ipv4Addr(0, 0, 0, 0), Ipv4Addr(255, 255, 255, 255),
     Ipv4Addr(192, 168, 255, 254)}

CalcTexts ==
    {<<"1", "2", "7", ".", "0", ".", "0", ".", "1", "/", "1", "7">>,
     <<"1", "0", ".", "1", "0", ".", "1", ".", "1", "/", "0">>,
     <<"1", "0", ".", "1", "0", ".", "1", ".", "1", "/", "3", "2">>,
     <<"1", "0", ".", "1", "0", ".", "1", ".", "1", "/", "3", "3">>,
     <<"1", "0", ".", "1", "0", ".", "1", ".", "1", "/", "6", "5", "5", "3", "6">>,
     <<"1", ".", "2", ".", "3", ".", "4">>,
     <<"/", "2", "4">>,
     <<"1", ".", "2", ".", "3", ".", "4", "/">>,
     <<"1", ".", "2", ".", "3", "/", "2", "4">>,
     <<"1", ".", "2", ".", "3", ".", "2", "5", "6", "/", "2", "4">>,
     <<"1", ".", "2", ".", "3", ".", "4", "/", "x">>,
     <<>>}

InitCalc ==
    /\ InitHost({DefaultBridgeAddress}, {0}, {"none"}, {"none"}, {})
    /\ passwd = ImagePasswd
    /\ InitLaunches({}, {[l \in Launches |-> PlainSpec(IdC, "Host")]})
    /\ overflow_checks \in BOOLEAN
    /\ resolv_conf = HostResolvConf
    /\ calc \in
          {Calc("subnet_mask", Ipv4Net_new(Ipv4Addr(127, 0, 0, 1), cidr), None) :
              cidr \in 0..32}
          \cup {Calc("next", Ipv4Net_new(a, cidr), None) :
                   a \in CalcAddresses, cidr \in 0..31}
          \cup {Calc("round_trip", Ipv4Net_new(a, cidr), None) :
                   a \in CalcAddresses, cidr \in {0, 8, 17, 24, 32}}
          \cup {Calc("from_str", Loopback, Some(t)) : t \in CalcTexts}

----------------------------------------------------------------------------
(* The specifications *)

Next ==
    \E l \in Launches :
        \/ from_bridge(l)
        \/ run_create(l)
        \/ run_clone(l)
        \/ run_waitpid(l)
        \/ destroy_netns_del(l)
        \/ destroy_link_del(l)
        \/ drop_remove_dir(l)
        \/ setup_cpu_cgroup(l)
        \/ setup_memory_cgroup(l)
        \/ setup_network(l)
        \/ mount_private(l)
        \/ create_container_root(l)
        \/ setup_dns(l)
        \/ resolve_user(l)
        \/ setup_container_root(l)
        \/ setup_user(l)
        \/ exec(l)
        \/ command_exits(l)

Spec == Init /\ [][Next]_vars

SpecScan == InitScan /\ [][Next]_vars

SpecLaunch == InitLaunch /\ [][Next]_vars

\* a launch that starts with create_bridge
NextBridge ==
    \/ \E l \in Launches : create_bridge(l)
    \/ Next

SpecBridge == InitBridge /\ [][NextBridge]_vars

SpecUser == InitUser /\ [][Next]_vars

\* the DNS settings of a launch: no server, one, the two defaults, three,
\* and the copy of the host's file
DnsSpecs ==
    {DNSSpec_Server(<<>>),
     DNSSpec_Server(<<<<"1", ".", "1", ".", "1", ".", "1">>>>),
     DefaultDns,
     DNSSpec_Server(<<<<"1", "0", ".", "0", ".", "0", ".", "1">>,
                      <<"1", "0", ".", "0", ".", "0", ".", "2">>,
                      <<"1", "0", ".", "0", ".", "0", ".", "3">>>>),
     CopyFromHost}

\* contents of the host's /etc/resolv.conf: empty, one server, and two lines
\* without a line break at the end
ResolvConfs ==
    {<<>>,
     HostResolvConf,
     <<"s", "e", "a", "r", "c", "h", " ", "l", "a", "n", "\n", "n", "a", "m", "e", "s", "e", "r", "v", "e", "r", " ", "1", "0", ".", "0", ".", "0", ".", "1">>}

\* one launch whose DNS setting varies, on a host whose resolv.conf varies
InitDns ==
    /\ InitHost({DefaultBridgeAddress}, {0}, {"none"}, {"none"},
                {"read /etc/resolv.conf", "write resolv.conf"})
    /\ passwd = ImagePasswd
    /\ overflow_checks = FALSE
    /\ calc = NoCalc
    /\ resolv_conf \in ResolvConfs
    /\ InitLaunches({"a"},
          {[l \in Launches |->
               IF l = "a"
               THEN RunContainerSpec(IdA, kind, None, dns, None, None, None, None, <<>>)
               ELSE PlainSpec(IdC, "Host")] :
              kind \in {"Host", "Bridged"}, dns \in DnsSpecs})

SpecDns == InitDns /\ [][Next]_vars

\* one launch of either kind, with the failures of SomeChildOps
InitLive ==
    /\ InitHost({DefaultBridgeAddress}, {0}, {"none"}, {"none"}, SomeChildOps)
    /\ passwd = ImagePasswd
    /\ InitBuild
    /\ InitLaunches({"a"},
          {[l \in Launches |-> IF l = "a" THEN PlainSpec(IdA, kind)
                               ELSE PlainSpec(IdC, "Host")] :
              kind \in {"Host", "Bridged"}})

\* the steps of launch l: those of its parent and those of its child.  At
\* most one of them can be taken at a time (the parent waits in waitpid
\* while the child runs)
launch_step(l) ==
    \/ from_bridge(l)
    \/ run_create(l)
    \/ run_clone(l)
    \/ run_waitpid(l)
    \/ destroy_netns_del(l)
    \/ destroy_link_del(l)
    \/ drop_remove_dir(l)
    \/ setup_cpu_cgroup(l)
    \/ setup_memory_cgroup(l)
    \/ setup_network(l)
    \/ mount_private(l)
    \/ create_container_root(l)
    \/ setup_dns(l)
    \/ resolve_user(l)
    \/ setup_container_root(l)
    \/ setup_user(l)
    \/ exec(l)
    \/ command_exits(l)

\* the parent and the child are processes the kernel keeps scheduling: a
\* step of `run` or of `execute` that can be taken is taken; and the
\* container's command is one that ends (command_exits)
Fairness == \A l \in Launches : WF_vars(launch_step(l))

SpecLive == InitLive /\ [][Next]_vars /\ Fairness

\* the Ipv4Net functions alone; no launch is present
NextCalc ==
    \/ apply_subnet_mask
    \/ apply_next
    \/ apply_to_string
    \/ apply_from_str

SpecCalc == InitCalc /\ [][NextCalc]_vars

----------------------------------------------------------------------------
(* Properties of the launch driver *)

attempted(l, op) == \E i \in DOMAIN plog[l] : plog[l][i].op = op
succeeded(l, op) == \E i \in DOMAIN plog[l] : plog[l][i].op = op /\ plog[l][i].ok
returned(l) == pc[l] = "returned"
bridged(l) == spec[l].network.kind = "Bridged"

\* C1: on every exit path of `run`, remove_dir_all of the container working
\* directory has been attempted when `run` has returned; when the removal
\* succeeded the directory is gone.
C1_DirectoryRemovalAttempted ==
    \A l \in Launches :
        returned(l) =>
            /\ attempted(l, "remove_dir_all")
            /\ succeeded(l, "remove_dir_all") => ~containerDir[l]

\* a run that failed (namespace creation, clone or waitpid) has returned
\* and its directory is gone
C1_Witness ==
    \E l \in Launches :
        /\ returned(l)
        /\ ~unwrap(result[l]).ok
        /\ succeeded(l, "remove_dir_all")
        /\ ~containerDir[l]

\* C2: when a bridged run whose namespace creation succeeded has returned,
\* `ip netns del` of its namespace has been issued, whether clone failed,
\* waitpid failed or the child was reaped; when all of the run's commands
\* succeeded, no namespace created by the run exists.
C2_NamespaceDeletionIssued ==
    \A l \in Launches :
        (returned(l) /\ bridged(l)
            /\ \A i \in 1..Len(CreateCommands) : succeeded(l, CreateCommands[i]))
        => /\ attempted(l, "netns del")
           /\ (\A i \in DOMAIN plog[l] : plog[l][i].ok)
                => \A n \in NsNames : ~(netns[n].exists /\ netns[n].creator = l)

\* a bridged run whose clone failed after the namespace was created has
\* returned, and its namespace is gone
C2_Witness ==
    \E l \in Launches :
        /\ returned(l)
        /\ succeeded(l, "route add default")
        /\ attempted(l, "clone") /\ ~succeeded(l, "clone")
        /\ succeeded(l, "netns del")
        /\ ~netns[cort_name(spec[l].id)].exists

\* C3 (as claimed): when `run` has returned the error of a namespace
\* creation that failed part-way, nothing the launch created is left: no
\* namespace and no host veth.
C3_PartialNamespaceDestroyed ==
    \A l \in Launches :
        (returned(l) /\ result[l] = Some(Err("CreateNetworkNamespace")))
        => \A n \in NsNames :
              /\ ~(netns[n].exists /\ netns[n].creator = l)
              /\ ~(veth[n].host /\ veth[n].creator = l)

\* the namespaces that hold a container address at the moment
configured == {n \in NsNames : veth[n].peer = "netns" /\ is_some(veth[n].addr)}

\* C4 (as claimed): two containers that exist at the same time on the bridge
\* never hold the same IPv4 address.
C4_DistinctAddresses ==
    \A n1, n2 \in configured :
        (n1 # n2 /\ veth[n1].creator # veth[n2].creator)
        => unwrap(veth[n1].addr).address # unwrap(veth[n2].addr).address

\* C10: `run` returns Ok exactly when namespace creation (for a bridged
\* launch), clone and waitpid all succeeded; neither the child's status nor
\* a failed teardown changes that.
C10_RunResult ==
    \A l \in Launches :
        returned(l) =>
            (unwrap(result[l]).ok <=>
                /\ bridged(l) =>
                      \A i \in 1..Len(CreateCommands) : succeeded(l, CreateCommands[i])
                /\ succeeded(l, "clone")
                /\ succeeded(l, "waitpid"))

\* a run returned Ok although its child ended with a non-zero status
C10_Witness ==
    \E l \in Launches :
        /\ returned(l)
        /\ unwrap(result[l]).ok
        /\ is_some(cstatus[l]) /\ unwrap(cstatus[l]) # 0

----------------------------------------------------------------------------
(* Properties of find_free_ip_address *)

\* the step in which from_bridge returns in launch l
scanned(l) == pc[l] = "from_bridge" /\ pc'[l] # "from_bridge"

\* the IPv4 address is carried by an interface on the host or inside an
\* existing cort- namespace, whatever the prefix length
assigned(address) ==
    \E shown \in hostAddrs \cup
                 UNION {addresses_shown(Some(n)) : n \in find_container_network_namespaces} :
        shown.address = address

\* C5 (as claimed): the address find_free_ip_address returns is, at the time
\* of the scan, the address of no interface on the host and of no interface
\* inside a cort- namespace.
C5_ReturnedAddressUnassigned ==
    [][\A l \in Launches :
          (scanned(l) /\ pc'[l] = "run")
          => ~assigned(unwrap(spec'[l].network.container_ip_address).address)]_vars

\* the low three octets of an address as a number, and the address with the
\* given first octet and low three octets; with a prefix length of 8 or more
\* (every bridge here) the host part lies in the low three octets
low24(address) == (address[2] * 256 + address[3]) * 256 + address[4]
with_low24(first, n) == Ipv4Addr(first, n \div 65536, (n \div 256) % 256, n % 256)

\* C6: the address find_free_ip_address returns has the prefix length and
\* the network bits of the base, and its host part is neither 0 (network)
\* nor all ones (broadcast).
C6_ReturnedAddressInSubnet ==
    \A l \in Launches :
        (bridged(l) /\ is_some(spec[l].network.container_ip_address))
        => LET base == bridge.ip_address
               found == unwrap(spec[l].network.container_ip_address)
               size == 2 ^ (32 - base.subnet_cidr)
           IN  /\ found.subnet_cidr = base.subnet_cidr
               /\ found.address[1] = base.address[1]
               /\ low24(found.address) \div size = low24(base.address) \div size
               /\ low24(found.address) % size # 0
               /\ low24(found.address) % size # size - 1

\* the scan went past the broadcast and the network address: the address
\* returned lies below the base
C6_Witness ==
    \E l \in Launches :
        /\ is_some(spec[l].network.container_ip_address)
        /\ low24(unwrap(spec[l].network.container_ip_address).address)
              < low24(bridge.ip_address.address)

\* C7 (as claimed): find_free_ip_address fails with NetworkIsFull only when
\* none of the subnet's non-reserved addresses is free.
C7_FullOnlyWhenNoneFree ==
    [][\A l \in Launches :
          (scanned(l) /\ result'[l] = Some(Err("NetworkIsFull")))
          => LET base == bridge.ip_address
                 size == 2 ^ (32 - base.subnet_cidr)
                 network == low24(base.address) - (low24(base.address) % size)
             IN  \A host_part \in 1..(size - 2) :
                    check_is_ip_address_used(
                        Ipv4Net_new(with_low24(base.address[1], network + host_part),
                                    base.subnet_cidr),
                        find_container_network_namespaces)]_vars

----------------------------------------------------------------------------
(* Properties of the child *)

\* the order of the child's steps as the specification lists them
ClaimedOrder ==
    <<"setup_cpu_cgroup", "setup_memory_cgroup", "setup_network",
      "mount_private", "create_container_root", "setup_dns", "find_user",
      "setup_container_root", "setup_user", "exec">>

position ==
    [stage \in {ClaimedOrder[i] : i \in DOMAIN ClaimedOrder} |->
        CHOOSE i \in DOMAIN ClaimedOrder : ClaimedOrder[i] = stage]

\* whether the launch has the step at all
applies(l, stage) ==
    CASE stage = "setup_network" -> bridged(l)
      [] stage = "setup_user" -> is_some(spec[l].user)
      [] OTHER -> TRUE

\* the step of the operation started before the j-th one (0: none)
previous_position(l, j) == IF j = 1 THEN 0 ELSE position[clog[l][j - 1].stage]

\* C8: the child's steps start in the claimed order: an operation starts
\* only after the operation before it succeeded, and it belongs to the step
\* of the operation before it or to the next step the launch has (the
\* network step exists only when bridged, the credential step only with a
\* user); the first operation belongs to the first step.
C8_ChildStepOrder ==
    \A l \in Launches :
        \A j \in DOMAIN clog[l] :
            /\ applies(l, clog[l][j].stage)
            /\ j > 1 => clog[l][j - 1].ok
            /\ previous_position(l, j) <= position[clog[l][j].stage]
            /\ \A k \in (previous_position(l, j) + 1)..(position[clog[l][j].stage] - 1) :
                  ~applies(l, ClaimedOrder[k])

\* a bridged child with a user went through every step and exec'ed
C8_Witness ==
    \E l \in Launches :
        /\ cpc[l] = "execed"
        /\ bridged(l)
        /\ is_some(spec[l].user)
        /\ \A k \in DOMAIN ClaimedOrder :
              \E i \in DOMAIN clog[l] : clog[l][i].stage = ClaimedOrder[k]

\* C9 (as claimed): when an operation of the child failed, it is the last
\* one the child started, the command was not exec'ed, and the trampoline
\* returned -1; the trampoline returned 0 only if execute returned Ok.
C9_FailureReturnsMinusOne ==
    \A l \in Launches :
        /\ \A i \in DOMAIN clog[l] :
              ~clog[l][i].ok
              => /\ i = Len(clog[l])
                 /\ cpc[l] # "execed"
                 /\ cret[l] = Some(-1)
        /\ cret[l] = Some(0) => ~is_some(cerr[l])

----------------------------------------------------------------------------
(* Properties of clone and of the namespace the child joins *)

\* C11: every clone call carries CLONE_NEWPID, CLONE_NEWNS, CLONE_NEWUTS and
\* SIGCHLD, and carries CLONE_NEWNET exactly when the launch holds a network
\* namespace handle, which it does exactly when it is bridged.
C11_CloneFlags ==
    \A l \in Launches :
        \A i \in DOMAIN plog[l] :
            plog[l][i].op = "clone"
            => /\ {"CLONE_NEWPID", "CLONE_NEWNS", "CLONE_NEWUTS", "SIGCHLD"}
                     \subseteq plog[l][i].flags
               /\ "CLONE_NEWNET" \in plog[l][i].flags <=> is_some(handle[l])
               /\ is_some(handle[l]) <=> bridged(l)

\* a launch on the host network has cloned its child without CLONE_NEWNET
C11_Witness ==
    \E l \in Launches :
        /\ ~bridged(l)
        /\ \E i \in DOMAIN plog[l] :
              /\ plog[l][i].op = "clone"
              /\ plog[l][i].ok
              /\ "CLONE_NEWNET" \notin plog[l][i].flags

\* the child of l has called setns and has not terminated
joined(l) ==
    /\ \E i \in DOMAIN clog[l] : clog[l][i].op = "setns"
    /\ cpc[l] \notin {"exited", "reaped"}

\* C12: a bridged launch calls clone only after each of the ten commands of
\* the namespace creation has succeeded (they are the ten operations before
\* the clone, in order), and from the setns of its child
\* until the child terminates the namespace exists, is the one this launch
\* created, and has its loopback up and its default route.
C12_NamespaceReadyBeforeClone ==
    \A l \in Launches :
        /\ bridged(l)
           => \A i \in DOMAIN plog[l] :
                 plog[l][i].op = "clone"
                 => /\ i > Len(CreateCommands)
                    /\ \A c \in DOMAIN CreateCommands :
                          LET before == plog[l][i - Len(CreateCommands) - 1 + c]
                          IN  before.op = CreateCommands[c] /\ before.ok
        /\ joined(l)
           => LET name == unwrap(network_namespace(spec[l]))
              IN  /\ netns[name].exists
                  /\ netns[name].creator = l
                  /\ netns[name].lo_up
                  /\ netns[name].route

\* the child of a bridged launch has joined the namespace of its launch
C12_Witness ==
    \E l \in Launches :
        /\ bridged(l)
        /\ \E i \in DOMAIN clog[l] : clog[l][i].op = "setns" /\ clog[l][i].ok
        /\ netns[cort_name(spec[l].id)].creator = l

----------------------------------------------------------------------------
(* Properties of the host bridge *)

\* launch l runs create_bridge in this step
calls_create_bridge(l) == pc[l] = "create_bridge" /\ plog'[l] # plog[l]

\* the commands the step of launch l issues
issued_now(l) ==
    {plog'[l][i].op : i \in (Len(plog[l]) + 1)..Len(plog'[l])}

\* C13: a create_bridge that finds the bridge interface returns Ok, issues
\* nothing but the `ip link show` (no link add, no address, no ip_forward
\* write, no iptables) and leaves the host as it is; a create_bridge that
\* follows another one leaves the host as the first one left it.
C13_CreateBridgeIdempotent ==
    [][\A l \in Launches :
          calls_create_bridge(l)
          => /\ hostNet.link # "absent"
                => /\ result'[l] = Some(Ok(None))
                   /\ issued_now(l) = {"link show"}
                   /\ hostNet' = hostNet
                   /\ hostAddrs' = hostAddrs
             /\ bridge_calls(l) >= 1
                => hostNet' = hostNet /\ hostAddrs' = hostAddrs]_vars

\* create_bridge made the bridge, and a second create_bridge has returned
C13_Witness ==
    \E l \in Launches :
        /\ succeeded(l, "link add bridge")
        /\ succeeded(l, "iptables -A FORWARD bridge bridge")
        /\ bridge_calls(l) = 2
        /\ plog[l][Len(plog[l])].op = "link show"
        /\ hostNet = BridgeCreated(bridge)

\* C14: no step of the tool (create_bridge, the namespace creation, the
\* teardown after a launch that succeeded or failed) removes the bridge
\* interface or takes the bridge's address off the host.
C14_BridgeNeverRemoved ==
    [][/\ hostNet.link # "absent" => hostNet'.link # "absent"
       /\ bridge.ip_address \in hostAddrs => bridge.ip_address \in hostAddrs'
       /\ bridge' = bridge]_vars

\* a launch has torn its namespace and veth down and returned; the bridge
\* is up and has its address
C14_Witness ==
    \E l \in Launches :
        /\ returned(l)
        /\ succeeded(l, "netns del")
        /\ succeeded(l, "link del")
        /\ hostNet.link = "up"
        /\ bridge.ip_address \in hostAddrs

----------------------------------------------------------------------------
(* Properties of the user resolution *)

selector(l) == unwrap(spec[l].user)

\* the file has a line of six or more colon-separated fields whose first is s
has_line(file, s) ==
    /\ is_some(file)
    /\ \E i \in DOMAIN unwrap(file) :
          LET parts == str_split(unwrap(file)[i], ":")
          IN  Len(parts) >= 6 /\ parts[1] = s

\* the child of l is through with its user: it resolved it, or the step ended
user_step_over(l) ==
    \E i \in DOMAIN clog[l] :
        /\ clog[l][i].stage = "find_user"
        /\ clog[l][i].op = "find_user" \/ ~clog[l][i].ok

\* C15 (as claimed): with the selector Name(s) the child resolves a record
\* whose username is s when etc/passwd has a line of six or more fields
\* whose first field is s, and fails with InvalidUser when it has none.
C15_NameResolution ==
    \A l \in Launches :
        (is_some(spec[l].user) /\ selector(l).kind = "Name" /\ user_step_over(l))
        => IF has_line(passwd, selector(l).name)
           THEN is_some(cuser[l]) /\ unwrap(cuser[l]).username = selector(l).name
           ELSE cerr[l] = Some("InvalidUser")

\* the child of l has run find_user
find_user_ran(l) ==
    \E i \in DOMAIN clog[l] : clog[l][i].op = "find_user"

----------------------------------------------------------------------------
(* Properties of Ipv4Net *)

\* the 16 bits of n and the 32 bits of a u32 or of an address, highest first
bits16(n) == [i \in 1..16 |-> (n \div (2 ^ (16 - i))) % 2 = 1]
bits32(x) == bits16(x[1]) \o bits16(x[2])
address_bits(address) ==
    bits16(address[1] * 256 + address[2]) \o bits16(address[3] * 256 + address[4])

\* the bits plus one, modulo 2^Len(bits): the trailing ones become zeros and
\* the zero before them a one
successor(bits) ==
    LET ones == Cardinality({k \in 1..Len(bits) :
                                \A i \in (Len(bits) - k + 1)..Len(bits) : bits[i]})
    IN  [i \in 1..Len(bits) |->
            IF i > Len(bits) - ones THEN FALSE
            ELSE IF i = Len(bits) - ones THEN TRUE
            ELSE bits[i]]

\* C17 (as claimed): for a prefix length below 32, next() returns: it keeps
\* the prefix length and the network bits, and the host bits of its result
\* are the host bits plus one modulo 2^(32-cidr); after 2^(32-cidr)
\* applications the address is the starting one again.
C17_NextIncrementsHostPart ==
    [][(calc.fn = "next" /\ calc'.steps = calc.steps + 1)
       => LET current == IF is_some(calc.out) THEN unwrap(calc.out).v ELSE calc.net
              cidr == current.subnet_cidr
              before == address_bits(current.address)
          IN  /\ unwrap(calc'.out).ok
              /\ LET after == unwrap(calc'.out).v
                 IN  /\ after.subnet_cidr = cidr
                     /\ SubSeq(address_bits(after.address), 1, cidr)
                           = SubSeq(before, 1, cidr)
                     /\ SubSeq(address_bits(after.address), cidr + 1, 32)
                           = successor(SubSeq(before, cidr + 1, 32))
                     /\ (cidr > 24 /\ calc'.steps = 2 ^ (32 - cidr))
                           => after = calc.net]_vars

\* C18: the parse of the text Display gives for an Ipv4Net with a prefix
\* length in 0..32 is Ok of that Ipv4Net.
C18_ParseOfDisplay ==
    (calc.fn = "round_trip" /\ is_some(calc.out))
    => unwrap(calc.out) = Ok(calc.net)

MaxAddressText == <<"2", "5", "5", ".", "2", "5", "5", ".", "2", "5", "5", ".", "2", "5", "5", "/", "1", "7">>

\* 255.255.255.255/17 went through Display and the parse
C18_Witness ==
    /\ calc.fn = "round_trip"
    /\ calc.net = Ipv4Net_new(Ipv4Addr(255, 255, 255, 255), 17)
    /\ calc.text = Some(MaxAddressText)
    /\ is_some(calc.out)

\* texts with a half missing, a half malformed, or a prefix length above 32
MustFail ==
    {<<"1", ".", "2", ".", "3", ".", "4">>,
     <<"/", "2", "4">>,
     <<"1", ".", "2", ".", "3", ".", "4", "/">>,
     <<"1", ".", "2", ".", "3", "/", "2", "4">>,
     <<"1", ".", "2", ".", "3", ".", "2", "5", "6", "/", "2", "4">>,
     <<"1", ".", "2", ".", "3", ".", "4", "/", "x">>,
     <<"1", "0", ".", "1", "0", ".", "1", ".", "1", "/", "3", "3">>,
     <<"1", "0", ".", "1", "0", ".", "1", ".", "1", "/", "6", "5", "5", "3", "6">>,
     <<>>}

\* C19 (as claimed): from_str returns an error for a text whose address or
\* prefix half is missing or malformed or whose prefix length is above 32,
\* and every Ipv4Net it returns has a prefix length in 0..32.
C19_FromStrRejects ==
    (calc.fn = "from_str" /\ is_some(calc.out))
    => /\ unwrap(calc.text) \in MustFail => ~unwrap(calc.out).ok
       /\ unwrap(calc.out).ok => unwrap(calc.out).v.subnet_cidr \in 0..32

\* C20 (as claimed): for a prefix length in 0..32 subnet_mask() returns,
\* without overflow, the u32 whose top cidr bits are set and whose other
\* bits are clear.
C20_SubnetMask ==
    (calc.fn = "subnet_mask" /\ is_some(calc.out))
    => /\ unwrap(calc.out).ok
       /\ bits32(unwrap(calc.out).v)
             = [i \in 1..32 |-> i <= calc.net.subnet_cidr]

----------------------------------------------------------------------------
(* Properties of the namespace handle and of its release *)

NamespaceOps == {CreateCommands[i] : i \in DOMAIN CreateCommands} \cup {"netns del", "link del"}

\* C21: a launch holds a namespace handle exactly when it is bridged (a
\* bridged launch that reached clone holds one, a launch on the host
\* network never does); the name held, the namespace the launch creates and
\* the one its child opens are `cort-` followed by the first 4 characters of
\* the id; a launch on the host network issues no command on a namespace
\* and its child neither opens nor joins one.
C21_NamespaceIffBridged ==
    \A l \in Launches :
        LET name == Cort \o SubSeq(spec[l].id, 1, 4)
        IN  /\ is_some(handle[l]) => bridged(l) /\ handle[l] = Some(name)
            /\ (bridged(l) /\ attempted(l, "clone")) => is_some(handle[l])
            /\ \A n \in NsNames :
                  (netns[n].creator = l \/ veth[n].creator = l)
                  => bridged(l) /\ n = name
            /\ \A i \in DOMAIN clog[l] :
                  clog[l][i].op = "open netns"
                  => bridged(l) /\ clog[l][i].arg = Some(name)
            /\ ~bridged(l)
               => /\ \A i \in DOMAIN plog[l] : plog[l][i].op \notin NamespaceOps
                  /\ \A i \in DOMAIN clog[l] :
                        clog[l][i].op \notin {"open netns", "setns", "sethostname"}

\* a bridged launch has returned after its child joined the namespace
C21_Witness ==
    \E l \in Launches :
        /\ bridged(l)
        /\ returned(l)
        /\ succeeded(l, "netns del")
        /\ \E i \in DOMAIN clog[l] : clog[l][i].op = "setns" /\ clog[l][i].ok

\* the entry the step of launch l appends to its log, when it appends one
appended(l) == plog'[l][Len(plog'[l])]

\* C22 (as claimed): the release of a namespace handle issues `ip netns del`
\* and after it `ip link del <name>-host`, whether or not the first
\* succeeded; neither changes what `run` returns, and the release goes on to
\* the removal of the directory.
C22_ReleaseIssuesBothDeletions ==
    [][\A l \in Launches :
          /\ (pc[l] = "drop_network_namespace" /\ pc'[l] # pc[l])
             => /\ Len(plog'[l]) = Len(plog[l]) + 1
                /\ appended(l).op = "netns del"
                /\ result'[l] = result[l]
                /\ pc'[l] = "drop_link_del"
          /\ (pc[l] = "drop_link_del" /\ pc'[l] # pc[l])
             => /\ Len(plog'[l]) = Len(plog[l]) + 1
                /\ appended(l).op = "link del"
                /\ result'[l] = result[l]
                /\ pc'[l] = "drop_remove_dir"]_vars

----------------------------------------------------------------------------
(* Progress of the launch driver *)

\* the states of a run: Prepared (about to clone), Running (waiting for the
\* child), and the teardown (the drops at the end of the scope)
Prepared(l) == pc[l] = "clone"
Running(l) == pc[l] = "waitpid"
Teardown(l) ==
    pc[l] \in {"drop_network_namespace", "drop_link_del", "drop_remove_dir"}

\* C23: with a command that ends, a run that is Prepared gets to Running or
\* to the teardown, a run that is Running gets to the teardown (through
\* Done, when waitpid succeeded), and the teardown ends with the return of
\* `run`; so every run that started returns.
C23_RunReturns ==
    \A l \in Launches :
        /\ Prepared(l) ~> (Running(l) \/ Teardown(l))
        /\ Running(l) ~> Teardown(l)
        /\ Teardown(l) ~> returned(l)
        /\ (pc[l] = "run") ~> returned(l)

\* a run has returned Ok after waiting for a child that ran the command
C23_Witness ==
    \E l \in Launches :
        /\ returned(l)
        /\ result[l] = Some(Ok(None))
        /\ \E i \in DOMAIN clog[l] : clog[l][i].op = "execvp" /\ clog[l][i].ok

----------------------------------------------------------------------------
(* Order of the steps inside the child *)

\* the entries of the child's log that belong to the stage, in order
in_stage(l, stage) == SelectSeq(clog[l], LAMBDA e : e.stage = stage)

\* the operations of the entries
ops_of(entries) == [i \in DOMAIN entries |-> entries[i].op]

\* only the last of the entries can be a failure
fails_last(entries) == \A i \in DOMAIN entries : ~entries[i].ok => i = Len(entries)

\* C24: the credential transition is, in this order, HOME set to the home of
\* the resolved user, setgid with the user's gid when the user has one, and
\* setuid with the uid (so setuid never comes before setgid); each is
\* attempted only after the one before succeeded; without a user selector
\* none of the three happens.
C24_CredentialOrder ==
    \A l \in Launches :
        LET entries == in_stage(l, "setup_user")
            user == unwrap(cuser[l])
            expected == <<[op |-> "set HOME", arg |-> Some(user.home_folder)]>>
                        \o (IF is_some(user.group_id)
                            THEN <<[op |-> "setgid", arg |-> user.group_id]>>
                            ELSE <<>>)
                        \o <<[op |-> "setuid", arg |-> Some(user.id)]>>
        IN  /\ ~is_some(spec[l].user)
               => \A i \in DOMAIN clog[l] :
                     clog[l][i].op \notin {"set HOME", "setgid", "setuid"}
            /\ \A i \in DOMAIN clog[l] :
                  clog[l][i].op \in {"set HOME", "setgid", "setuid"}
                  => clog[l][i].stage = "setup_user"
            /\ entries # <<>>
               => /\ is_some(cuser[l])
                  /\ Len(entries) <= Len(expected)
                  /\ \A i \in DOMAIN entries :
                        /\ entries[i].op = expected[i].op
                        /\ entries[i].arg = expected[i].arg
                  /\ fails_last(entries)
            /\ cpc[l] \in {"exec", "execed"} /\ is_some(cuser[l])
               => Len(entries) = Len(expected)

\* the child of a launch with the selector `ubuntu` has set HOME, the gid
\* 1000 and then the uid
C24_Witness ==
    \E l \in Launches :
        /\ \E i \in DOMAIN clog[l] :
              /\ clog[l][i].op = "setgid"
              /\ clog[l][i].ok
              /\ clog[l][i].arg = Some(1000)
        /\ \E i \in DOMAIN clog[l] : clog[l][i].op = "setuid" /\ clog[l][i].ok

\* the mounts made for the container: the overlay, proc, sysfs, the tmpfs on
\* dev, devpts and the bind mounts
ContainerMounts ==
    {"mount overlay", "mount proc", "mount sysfs", "mount tmpfs", "mount devpts",
     "mount bind"}

\* C25: every mount the child makes for the container comes after the
\* remount of / as MS_PRIVATE | MS_REC, and that remount succeeded.
C25_PrivateBeforeMounts ==
    \A l \in Launches :
        \A i \in DOMAIN clog[l] :
            clog[l][i].op \in ContainerMounts
            => \E j \in 1..(i - 1) :
                  /\ clog[l][j].op = "mount / private"
                  /\ clog[l][j].stage = "mount_private"
                  /\ clog[l][j].ok

\* a child has made the overlay mount, the four mounts of setup_mounts and a
\* bind mount
C25_Witness ==
    \E l \in Launches :
        \A m \in ContainerMounts :
            \E i \in DOMAIN clog[l] : clog[l][i].op = m /\ clog[l][i].ok

\* the quota files of each controller's stage
QuotaFiles ==
    [setup_cpu_cgroup |-> {"write cpu.shares"},
     setup_memory_cgroup |-> {"write memory.limit_in_bytes",
                              "write memory.memsw.limit_in_bytes"}]

\* the child of l wrote its pid to the tasks file of the stage's controller
\* before the i-th entry of its log
in_cgroup_before(l, stage, i) ==
    \E j \in 1..(i - 1) :
        /\ clog[l][j].stage = stage
        /\ clog[l][j].op = "write tasks"
        /\ clog[l][j].ok

\* C26: a quota file of a controller is written only after the child wrote
\* its pid to that controller's tasks file, and the child calls setns only
\* after it wrote both tasks files.
C26_TasksBeforeQuotasAndSetns ==
    \A l \in Launches :
        \A i \in DOMAIN clog[l] :
            /\ \A stage \in DOMAIN QuotaFiles :
                  clog[l][i].op \in QuotaFiles[stage]
                  => clog[l][i].stage = stage /\ in_cgroup_before(l, stage, i)
            /\ clog[l][i].op \in {"open netns", "setns"}
               => \A stage \in DOMAIN QuotaFiles : in_cgroup_before(l, stage, i)

\* a child has written the cpu shares and the two memory limits and has
\* joined its namespace
C26_Witness ==
    \E l \in Launches :
        \A op \in {"write cpu.shares", "write memory.limit_in_bytes",
                   "write memory.memsw.limit_in_bytes", "setns"} :
            \E i \in DOMAIN clog[l] : clog[l][i].op = op /\ clog[l][i].ok

----------------------------------------------------------------------------
(* Order of the drops and of the commands of the creation *)

DestroyCommands == {"netns del", "link del"}

\* C27: when `run` leaves its scope holding a namespace handle, the handle
\* is dropped before the directory guard: the removal of the directory
\* comes after `ip netns del`, and no command of the namespace's
\* destruction comes after the removal of the directory.
C27_GuardsDroppedLifo ==
    \A l \in Launches :
        \A i \in DOMAIN plog[l] :
            /\ (plog[l][i].op = "remove_dir_all" /\ is_some(handle[l]))
               => \E j \in 1..(i - 1) : plog[l][j].op = "netns del"
            /\ plog[l][i].op \in DestroyCommands
               => \A j \in 1..(i - 1) : plog[l][j].op # "remove_dir_all"

\* a bridged launch whose clone failed has deleted its namespace and its
\* veth and then removed its directory
C27_Witness ==
    \E l \in Launches :
        /\ returned(l)
        /\ \E i \in DOMAIN plog[l] : plog[l][i].op = "clone" /\ ~plog[l][i].ok
        /\ succeeded(l, "netns del")
        /\ succeeded(l, "link del")
        /\ succeeded(l, "remove_dir_all")

\* the steps of NetworkNamespace::create in the order claimed: add the
\* namespace, create the veth pair, set the bridge as master of the host
\* end and of the namespace end, bring the host end up, move the namespace
\* end into the namespace, and inside it assign the address, bring the end
\* up, bring lo up and add the default route
ClaimedCreateOrder ==
    <<"netns add", "link add veth", "link set host master", "link set ns master",
      "link set host up", "link set ns netns", "addr add", "link set ns up",
      "link set lo up", "route add default">>

\* the entries the step of launch l appends to its log
appended_entries(l) == SubSeq(plog'[l], Len(plog[l]) + 1, Len(plog'[l]))

\* C28: the creation of the namespace issues the commands in the claimed
\* order, each after the one before succeeded; when all ten succeeded `run`
\* goes on to clone; the first command that fails is the last one issued,
\* and `run` then returns the error CreateNetworkNamespace.
C28_CreateOrder ==
    [][\A l \in Launches :
          (pc[l] = "run" /\ bridged(l) /\ pc'[l] # "run")
          => LET new == appended_entries(l)
             IN  /\ Len(new) \in 1..Len(ClaimedCreateOrder)
                 /\ ops_of(new) = SubSeq(ClaimedCreateOrder, 1, Len(new))
                 /\ fails_last(new)
                 /\ IF new[Len(new)].ok
                    THEN /\ Len(new) = Len(ClaimedCreateOrder)
                         /\ pc'[l] = "clone"
                         /\ result'[l] = None
                    ELSE /\ result'[l] = Some(Err("CreateNetworkNamespace"))
                         /\ pc'[l] = "drop_remove_dir"]_vars

\* a creation failed at `ip link set <name>-ns netns <name>`, after five
\* commands that succeeded
C28_Witness ==
    \E l \in Launches :
        /\ result[l] = Some(Err("CreateNetworkNamespace"))
        /\ Len(plog[l]) >= 6
        /\ plog[l][6].op = "link set ns netns"
        /\ ~plog[l][6].ok
        /\ \A i \in 1..5 : plog[l][i].ok

----------------------------------------------------------------------------
(* The pivot and the DNS configuration *)

PivotSequence ==
    <<"mkdir old_root", "pivot_root", "chdir", "umount2 old_root", "rmdir old_root">>

\* what is made in the new root: the mounts of proc, sysfs, tmpfs and
\* devpts, the three symlinks and the seven device nodes
MadeInNewRoot ==
    {"mount proc", "mount sysfs", "mount tmpfs", "mount devpts",
     "symlink stdin", "symlink stdout", "symlink stderr",
     "mknod null", "mknod zero", "mknod random", "mknod urandom",
     "mknod console", "mknod tty", "mknod full"}

\* the entries among `entries` whose operation is in the set, in order
only(entries, ops) == SelectSeq(entries, LAMBDA e : e.op \in ops)

\* C29: the steps of the pivot are attempted in the order mkdir old_root,
\* pivot_root, chdir, umount2 of /old_root, rmdir of /old_root, each after
\* the one before succeeded; when pivot_root is called the mounts, the
\* device nodes and every bind mount have been made; the directory of chdir
\* is the home of the resolved user, or / without a user selector.
C29_PivotSequence ==
    \A l \in Launches :
        LET entries == in_stage(l, "setup_container_root")
            pivot == only(entries, {PivotSequence[i] : i \in DOMAIN PivotSequence})
        IN  /\ fails_last(entries)
            /\ Len(pivot) <= Len(PivotSequence)
            /\ ops_of(pivot) = SubSeq(PivotSequence, 1, Len(pivot))
            /\ \A i \in DOMAIN entries :
                  entries[i].op = "pivot_root"
                  => /\ \A made \in MadeInNewRoot :
                           \E j \in 1..(i - 1) : entries[j].op = made /\ entries[j].ok
                     /\ Len(only(SubSeq(entries, 1, i - 1), {"mount bind"}))
                           = Len(spec[l].bind_mounts)
                     /\ Len(only(entries, {"mount bind"})) = Len(spec[l].bind_mounts)
            /\ \A i \in DOMAIN entries :
                  entries[i].op = "chdir"
                  => entries[i].arg = Some(IF is_some(spec[l].user)
                                           THEN unwrap(cuser[l]).home_folder
                                           ELSE <<"/">>)

\* a child with a bind mount and the user `ubuntu` has gone through the
\* whole pivot, with /home/ubuntu as its directory
C29_Witness ==
    \E l \in Launches :
        /\ spec[l].bind_mounts # <<>>
        /\ spec[l].user = Some(UserSpec_Name(Ubuntu))
        /\ \E i \in DOMAIN clog[l] : clog[l][i].op = "rmdir old_root" /\ clog[l][i].ok
        /\ \E i \in DOMAIN clog[l] :
              /\ clog[l][i].op = "chdir"
              /\ clog[l][i].arg # Some(<<"/">>)

\* the concatenation of `nameserver <ip>\n` over the servers, in order
RECURSIVE nameserver_lines(_)
nameserver_lines(servers) ==
    IF servers = <<>> THEN <<>>
    ELSE <<"n", "a", "m", "e", "s", "e", "r", "v", "e", "r", " ">>
         \o Head(servers) \o <<"\n">> \o nameserver_lines(Tail(servers))

\* C30 (as claimed): the content written to etc/resolv.conf of the new root
\* is, for Server([ip1..ipk]), the concatenation of `nameserver <ip_i>\n`
\* in list order (nothing for k = 0), and for CopyFromHost the content of
\* the host's /etc/resolv.conf.
C30_ResolvConfContent ==
    \A l \in Launches :
        \A i \in DOMAIN clog[l] :
            clog[l][i].op = "write resolv.conf"
            => clog[l][i].arg =
                  Some(IF spec[l].dns.kind = "Server"
                       THEN nameserver_lines(spec[l].dns.servers)
                       ELSE resolv_conf)

----------------------------------------------------------------------------
(* The errors of the child's stages *)

\* the variant each stage's failure is said to surface as
StageVariant ==
    [setup_cpu_cgroup |-> "SetupCpuCgroup",
     setup_memory_cgroup |-> "SetupMemoryCgroup",
     setup_network |-> "SetupNetwork",
     setup_dns |-> "SetupDNS",
     create_container_root |-> "SetupContainerRoot",
     setup_container_root |-> "SetupContainerRoot",
     setup_user |-> "SetupUser"]

\* the operation the child failed in, when `execute` returned an error
failed_in(l) == clog[l][Len(clog[l])]

\* C31 (as claimed): a failure inside a child stage surfaces from `execute`
\* as that stage's Setup<Stage> variant: the cgroup stages as SetupCpuCgroup
\* and SetupMemoryCgroup, setup_network as SetupNetwork, the DNS stage (the
\* read of the host's resolv.conf included) as SetupDNS, the assembly of the
\* overlay root and the pivot as SetupContainerRoot, the credential
\* transition as SetupUser; no raw IO, Mount or Libc error leaves a stage.
C31_StageErrorsWrapped ==
    \A l \in Launches :
        (is_some(cerr[l]) /\ failed_in(l).stage \in DOMAIN StageVariant)
        => unwrap(cerr[l]) = StageVariant[failed_in(l).stage]

----------------------------------------------------------------------------
(* The hostname of the child *)

\* C32: the child calls sethostname only in a bridged launch and only after
\* a setns that succeeded; the name it sets is the hostname of the bridged
\* network when the launch gives one and the container's name otherwise.
\* The child of a launch on the host network calls neither sethostname nor
\* setns.
C32_HostnameOnlyBridged ==
    \A l \in Launches :
        /\ \A i \in DOMAIN clog[l] :
              clog[l][i].op = "sethostname"
              => /\ spec[l].network.kind = "Bridged"
                 /\ \E j \in 1..(i - 1) :
                       clog[l][j].op = "setns" /\ clog[l][j].ok
                 /\ clog[l][i].arg =
                       Some(IF spec[l].network.hostname # <<>>
                            THEN spec[l].network.hostname[1]
                            ELSE spec[l].name)
        /\ spec[l].network.kind = "Host"
           => \A i \in DOMAIN clog[l] :
                 clog[l][i].op \notin {"setns", "sethostname"}

\* a bridged launch without a hostname of its own whose child has set the
\* hostname and gone on
C32_Witness ==
    \E l \in Launches :
        /\ spec[l].network.kind = "Bridged"
        /\ spec[l].network.hostname = <<>>
        /\ \E i \in DOMAIN clog[l] :
              /\ clog[l][i].op = "sethostname"
              /\ clog[l][i].ok
              /\ clog[l][i].arg = Some(spec[l].name)
              /\ i < Len(clog[l])

----------------------------------------------------------------------------
(* create_bridge and the firewall *)

\* launch l runs create_bridge on a host without the bridge, and the call
\* returns Ok
creates_bridge(l) ==
    /\ pc[l] = "create_bridge"
    /\ hostNet.link = "absent"
    /\ plog'[l] # plog[l]
    /\ result'[l] = Some(Ok(None))

\* the accept rules create_bridge appends to the FORWARD chain
AcceptRules ==
    <<"iptables -A FORWARD bridge bridge">>
    \o (IF bridge.physical_interface # <<>>
        THEN <<"iptables -A FORWARD physical bridge",
               "iptables -A FORWARD bridge physical">>
        ELSE <<>>)

\* C33 (as claimed): when create_bridge creates a missing bridge, the
\* firewall changes only in the filter FORWARD chain (policy DROP, the chain
\* flushed, the accept rules appended) and, with a physical interface, in
\* one MASQUERADE rule appended to nat POSTROUTING: the rules the nat table
\* had before are all still there, in front of the new one.
C33_FirewallFrame ==
    [][\A l \in Launches :
          creates_bridge(l)
          => /\ hostNet'.forward_policy = "DROP"
             /\ hostNet'.forward = AcceptRules
             /\ hostNet'.nat =
                   hostNet.nat
                   \o (IF bridge.physical_interface # <<>>
                       THEN <<"MASQUERADE from bridge subnet">> ELSE <<>>)]_vars

\* launch l runs create_bridge and the call returns Ok, in a sequence of
\* calls the first of which found the bridge missing
returns_success(l) ==
    /\ pc[l] = "create_bridge"
    /\ plog'[l] # plog[l]
    /\ result'[l] = Some(Ok(None))
    /\ plog'[l][1].op = "link show"
    /\ ~plog'[l][1].ok

\* C34 (as claimed): after any sequence of create_bridge calls with the
\* same spec, calls that failed part-way included, a call that returns
\* success leaves the bridge interface present, up and with the spec's
\* address, IPv4 forwarding on and the FORWARD accept rule of the bridge
\* installed.
C34_SuccessMeansBridgeReady ==
    [][\A l \in Launches :
          returns_success(l)
          => /\ hostNet'.link = "up"
             /\ bridge.ip_address \in hostAddrs'
             /\ hostNet'.ip_forward = "1"
             /\ \E i \in DOMAIN hostNet'.forward :
                   hostNet'.forward[i] = "iptables -A FORWARD bridge bridge"]_vars

----------------------------------------------------------------------------
(* Two launches whose ids share their first 4 characters *)

\* launches l and m are bridged, have different ids and the same namespace
\* name
same_prefix(l, m) ==
    /\ l # m
    /\ spec[l].network.kind = "Bridged"
    /\ spec[m].network.kind = "Bridged"
    /\ spec[l].id # spec[m].id
    /\ SubSeq(spec[l].id, 1, 4) = SubSeq(spec[m].id, 1, 4)

\* launch l holds its namespace and has not begun to tear it down
live(l) == handle[l] # <<>> /\ pc[l] \in {"clone", "waitpid"}

\* the namespace and the veth pair as the creation by launch l leaves them
intact(l, name) ==
    /\ netns[name] = [exists |-> TRUE, creator |-> l, lo_up |-> TRUE,
                      route |-> TRUE]
    /\ veth[name] = [host |-> TRUE, peer |-> "netns", host_master |-> TRUE,
                     peer_master |-> FALSE, host_up |-> TRUE, peer_up |-> TRUE,
                     addr |-> spec[l].network.container_ip_address,
                     creator |-> l]

====
